---------------------------- MODULE Spec2Model ----------------------------
(***************************************************************************)
(* Site Survey Manager: the parsing and classification engine of           *)
(* app/measurement.py and app/measurement_report.py, and the aggregation   *)
(* of app/measurement_analisys.py.                                         *)
(*                                                                         *)
(* Conventions.                                                            *)
(*   - A Python Optional value is a set: None is {} and a present value x  *)
(*     is {x}.                                                             *)
(*   - A Python str that the code inspects character by character is a     *)
(*     sequence of one-character strings.                                  *)
(*   - A float is an integer number of tenths where the code only compares *)
(*     it (the threshold ladders), the integer value * Scale where the     *)
(*     code computes it from text, and an exact fraction <<num, den>> in    *)
(*     lowest terms where the code divides (the aggregation).              *)
(***************************************************************************)
EXTENDS Integers, Sequences, FiniteSets, TLC

VARIABLES
    \* ---- quality classification (classify_threshold and the tooltips)
    value,              \* Optional[float], in tenths
    thresholds,         \* Dict[str, float]: severity code -> limit, sparse
    higher_is_better,   \* bool
    call,               \* the function that was called last ("" before any)
    label,              \* Optional[str]: what the classifier returned
    tooltip,            \* the tooltip's segments, in order
    \* ---- parse_project_text
    lines,              \* text.splitlines(): the lines of the project file
    lineno,             \* how many lines the extraction loop has processed
    keys,               \* Dict[str, str]: the raw key -> value map
    site,               \* the site descriptor of the returned record
    qm,                 \* the quality metrics of the returned record
    returned,           \* whether parse_project_text has returned
    \* ---- numeric coercion
    raw,                \* Optional[str]: the argument of nfloat
    number,             \* Optional[float]: what nfloat returned
    \* ---- parse_sets_text
    set_text,           \* text.splitlines(): the lines of the set file
    set_lines,          \* lines: the stripped non-blank lines
    hdr_idx,            \* Optional[int]: the 0-based index of the header line
    set_pos,            \* how many of the lines after the header were read
    rows,               \* the rows built so far
    stage,              \* where parse_sets_text stands
    \* ---- aggregation (measurement_analisys.py)
    selected,           \* List[MeasurementSummary]: the selected measurements
    stats,              \* what _calc_stats returned
    weighted,           \* what _inverted_weighted_average returned
    payload,            \* what _build_chart_payload returned
    \* ---- the request handlers and the tables they read and write
    measurements,       \* table measurements: the rows, in id order
    measurement_project,\* table measurement_project: the rows, in rowid order
    preflight_answers,  \* table preflight_answers: (survey_id, step_code) -> row
    site_surveys,       \* table site_surveys: id -> status
    request,            \* the request handled last
    response,           \* what its handler returned or raised
    \* ---- _decode_text
    bytes,              \* bytes: the argument of _decode_text
    decoded             \* Optional[str]: what _decode_text returned

cvars == <<value, thresholds, higher_is_better, label, tooltip>>
pvars == <<lines, lineno, keys, site, qm, returned>>
nvars == <<raw, number>>
svars == <<set_text, set_lines, hdr_idx, set_pos, rows, stage>>
avars == <<selected, stats, weighted, payload>>
rvars == <<measurements, measurement_project, preflight_answers, site_surveys,
           request, response, bytes, decoded>>

vars == <<call, cvars, pvars, nvars, svars, avars, rvars>>

None == {}
Some(x) == {x}
TheValue(o) == CHOOSE x \in o : TRUE

-----------------------------------------------------------------------------
(* Bounds of the model.                                                    *)

\* limits of the generated sparse ladders range over 1..MaxLimit
MaxLimit == 2

\* lines of a text made of arbitrary key/value lines
MaxKVLines == 2

\* lines of a project file made of the lines of one field's aliases
MaxLines == 3

\* length of the generated arguments of nfloat
MaxNumLen == 4

-----------------------------------------------------------------------------
(* config.py                                                               *)

THR_desc == [g |-> "GOOD", w |-> "WARN", p |-> "POOR", b |-> "BAD", u |-> "UNUSABLE"]

\* config.STATUS_LADDER: the ladder measurement_report.py imports
STATUS_LADDER ==
    << <<"g", "good">>, <<"w", "warn">>, <<"p", "poor">>, <<"b", "bad">>,
       <<"u", "unusable">> >>

\* the STATUS_LADDER local to measurement.list_measurements (no "u" entry)
STATUS_LADDER_local ==
    << <<"g", "good">>, <<"w", "warn">>, <<"p", "poor">>, <<"b", "bad">> >>

\* THR_laboratory["pss"] and THR_laboratory["acc"], in tenths
THR_pss == [g |-> 15, w |-> 20, p |-> 50, b |-> 100, u |-> 200]
THR_acc == [g |-> 950, w |-> 850, p |-> 750, b |-> 650, u |-> 550]

-----------------------------------------------------------------------------
(* Threshold classification                                                *)

\* thresholds.get(key)
Get(thr, key) == IF key \in DOMAIN thr THEN Some(thr[key]) ELSE None

\* WalkLadder with strict comparisons (< for <=, > for >=)
RECURSIVE WalkLadderStrict(_, _, _, _, _)
WalkLadderStrict(ladder, i, v, thr, hib) ==
    IF i > Len(ladder) THEN None
    ELSE LET key == ladder[i][1]
             limit == Get(thr, key)
         IN  IF limit = None THEN WalkLadderStrict(ladder, i + 1, v, thr, hib)
             ELSE IF (IF hib THEN v > TheValue(limit) ELSE v < TheValue(limit))
                  THEN Some(ladder[i][2])
                  ELSE WalkLadderStrict(ladder, i + 1, v, thr, hib)

\* the for loop over a status ladder, from entry i on: the label of the first
\* configured entry the value satisfies, None when the loop falls through
RECURSIVE WalkLadder(_, _, _, _, _)
WalkLadder(ladder, i, v, thr, hib) ==
    IF i > Len(ladder) THEN None
    ELSE LET key == ladder[i][1]
             limit == Get(thr, key)
         IN  IF limit = None THEN WalkLadder(ladder, i + 1, v, thr, hib)
             ELSE IF (IF hib THEN v >= TheValue(limit) ELSE v <= TheValue(limit))
                  THEN Some(ladder[i][2])
                  ELSE WalkLadder(ladder, i + 1, v, thr, hib)

\* Fallback without the test against the "u" limit
FallbackNoUnusable(v, thr, hib) ==
    IF Get(thr, "b") # None THEN Some("bad")
    ELSE IF Get(thr, "p") # None THEN Some("poor")
    ELSE Some("warn")

\* Fallback whose test against the "u" limit is not inverted with the direction
FallbackLowerOnly(v, thr, hib) ==
    LET bound == Get(thr, "u")
    IN  IF bound # None /\ v > TheValue(bound)
        THEN Some("unusable")
        ELSE IF Get(thr, "b") # None THEN Some("bad")
        ELSE IF Get(thr, "p") # None THEN Some("poor")
        ELSE Some("warn")

\* the code after the loop
Fallback(v, thr, hib) ==
    LET bound == Get(thr, "u")
    IN  IF bound # None
           /\ (IF hib THEN v < TheValue(bound) ELSE v > TheValue(bound))
        THEN Some("unusable")
        ELSE IF Get(thr, "b") # None THEN Some("bad")
        ELSE IF Get(thr, "p") # None THEN Some("poor")
        ELSE Some("warn")

\* Classify without the guard on an empty ladder
ClassifyNoEmptyGuard(ladder, val, thr, hib) ==
    IF val = None THEN None
    ELSE LET hit == WalkLadder(ladder, 1, TheValue(val), thr, hib)
         IN  IF hit # None THEN hit ELSE Fallback(TheValue(val), thr, hib)

\* the body shared by classify_threshold and _classify_threshold, which differ
\* in the STATUS_LADDER they walk
Classify(ladder, val, thr, hib) ==
    IF val = None \/ DOMAIN thr = {} THEN None
    ELSE LET hit == WalkLadder(ladder, 1, TheValue(val), thr, hib)
         IN  IF hit # None THEN hit ELSE Fallback(TheValue(val), thr, hib)

\* classify_threshold that drops its direction flag
classify_threshold_lower_only(val, thr, hib) ==
    Classify(STATUS_LADDER_local, val, thr, FALSE)

\* measurement.py, inside list_measurements
classify_threshold(val, thr, hib) == Classify(STATUS_LADDER_local, val, thr, hib)

\* measurement_report.py
_classify_threshold(val, thr, hib) == Classify(STATUS_LADDER, val, thr, hib)

-----------------------------------------------------------------------------
(* Tooltips.  A segment "<LABEL> <comparator> <limit>" is the record of    *)
(* its three parts; " • ".join(parts) is the sequence of the segments.     *)

Segment(key, cmp, limit) == [label |-> THR_desc[key], comparator |-> cmp, limit |-> limit]

RECURSIVE LadderParts(_, _, _, _)
LadderParts(ladder, i, thr, hib) ==
    IF i > Len(ladder) THEN <<>>
    ELSE LET key == ladder[i][1]
             rest == LadderParts(ladder, i + 1, thr, hib)
         IN  IF Get(thr, key) = None THEN rest
             ELSE <<Segment(key, IF hib THEN ">=" ELSE "<=", thr[key])>> \o rest

Tooltip(ladder, thr, hib) ==
    IF DOMAIN thr = {} THEN <<>>
    ELSE LadderParts(ladder, 1, thr, hib)
         \o (IF Get(thr, "u") # None
             THEN <<Segment("u", IF hib THEN "<" ELSE ">", thr["u"])>>
             ELSE <<>>)

\* measurement.py, inside list_measurements
format_threshold_tooltip(thr, hib) == Tooltip(STATUS_LADDER_local, thr, hib)

\* measurement_report.py
_format_threshold_tooltip(thr, hib) == Tooltip(STATUS_LADDER, thr, hib)

-----------------------------------------------------------------------------
(* The classification calls                                                *)

Codes == {"g", "w", "p", "b", "u"}
Labels == {"good", "warn", "poor", "bad", "unusable"}

\* every sparse ladder with limits in 1..MaxLimit, and the two configured ones
Ladders ==
    UNION {[S -> 1..MaxLimit] : S \in SUBSET Codes} \cup {THR_pss, THR_acc}

ExampleValues == {12, 70, 250, 970, 700, 600}

Values == {None} \cup {Some(v) : v \in (0..(MaxLimit + 1)) \cup ExampleValues}

\* no project file is being parsed
IdleProject ==
    /\ lines = <<>> /\ lineno = 0 /\ keys = <<>>
    /\ site = <<>> /\ qm = <<>> /\ returned = FALSE

\* no number is being coerced
IdleNumber == raw = None /\ number = None

\* no set file is being parsed
IdleSets ==
    /\ set_text = <<>> /\ set_lines = <<>> /\ hdr_idx = None
    /\ set_pos = 0 /\ rows = <<>> /\ stage = ""

\* nothing is being aggregated
IdleAnalysis ==
    /\ selected = <<>> /\ stats = <<>> /\ weighted = None /\ payload = <<>>

\* no request is being handled and no bytes are being decoded
IdleRequests ==
    /\ measurements = <<>> /\ measurement_project = <<>>
    /\ preflight_answers = <<>> /\ site_surveys = <<>>
    /\ request = <<>> /\ response = <<>>
    /\ bytes = <<>> /\ decoded = None

\* no value is being classified
IdleClassify ==
    /\ value = None /\ thresholds = <<>> /\ higher_is_better = FALSE
    /\ label = None /\ tooltip = <<>>

InitClassify ==
    /\ value \in Values
    /\ thresholds \in Ladders
    /\ higher_is_better \in BOOLEAN
    /\ call = ""
    /\ label = None
    /\ tooltip = <<>>
    /\ IdleProject
    /\ IdleNumber
    /\ IdleSets
    /\ IdleAnalysis
    /\ IdleRequests

CallClassifyThreshold ==
    /\ call = ""
    /\ call' = "classify_threshold"
    /\ label' = classify_threshold(value, thresholds, higher_is_better)
    /\ UNCHANGED <<value, thresholds, higher_is_better, tooltip, pvars, nvars, svars, avars, rvars>>

CallReportClassifyThreshold ==
    /\ call = ""
    /\ call' = "_classify_threshold"
    /\ label' = _classify_threshold(value, thresholds, higher_is_better)
    /\ UNCHANGED <<value, thresholds, higher_is_better, tooltip, pvars, nvars, svars, avars, rvars>>

CallFormatThresholdTooltip ==
    /\ call = ""
    /\ call' = "format_threshold_tooltip"
    /\ tooltip' = format_threshold_tooltip(thresholds, higher_is_better)
    /\ UNCHANGED <<value, thresholds, higher_is_better, label, pvars, nvars, svars, avars, rvars>>

CallReportFormatThresholdTooltip ==
    /\ call = ""
    /\ call' = "_format_threshold_tooltip"
    /\ tooltip' = _format_threshold_tooltip(thresholds, higher_is_better)
    /\ UNCHANGED <<value, thresholds, higher_is_better, label, pvars, nvars, svars, avars, rvars>>

NextClassify ==
    \/ CallClassifyThreshold
    \/ CallReportClassifyThreshold
    \/ CallFormatThresholdTooltip
    \/ CallReportFormatThresholdTooltip

SpecClassify == InitClassify /\ [][NextClassify]_vars


-----------------------------------------------------------------------------
(* Claims about the classifier and the tooltips                            *)

Rank(l) == CASE l = "good" -> 1 [] l = "warn" -> 2 [] l = "poor" -> 3
             [] l = "bad" -> 4 [] l = "unusable" -> 5

SeverityOrder == <<"g", "w", "p", "b">>
LabelOf == [g |-> "good", w |-> "warn", p |-> "poor", b |-> "bad", u |-> "unusable"]

Min(S) == CHOOSE x \in S : \A y \in S : x <= y

LowerCall ==
    call = "classify_threshold" /\ ~higher_is_better

HigherCall ==
    call = "classify_threshold" /\ higher_is_better

\* C1 as the claim states it: lower-is-better over {g:1.5, w:2.0, p:5.0,
\* b:10.0, u:20.0} gives good for 1.2, poor for 7.0, unusable for 25.0 and no
\* label for a null value.
C1_AsClaimed ==
    (LowerCall /\ thresholds = THR_pss) =>
        /\ (value = Some(12) => label = Some("good"))
        /\ (value = Some(70) => label = Some("poor"))
        /\ (value = Some(250) => label = Some("unusable"))
        /\ (value = None => label = None)

\* C1 amended: lower-is-better over {g:1.5, w:2.0, p:5.0, b:10.0, u:20.0}
\* gives good for 1.2, bad for 7.0 (the first limit >= 7.0 is b's 10.0),
\* unusable for 25.0 and no label for a null value.
C1_LowerExamples ==
    (LowerCall /\ thresholds = THR_pss) =>
        /\ (value = Some(12) => label = Some("good"))
        /\ (value = Some(70) => label = Some("bad"))
        /\ (value = Some(250) => label = Some("unusable"))
        /\ (value = None => label = None)

C1_Witness ==
    LowerCall /\ thresholds = THR_pss /\ value = Some(70) /\ label = Some("bad")

\* C2 as the claim states it: higher-is-better over {g:95, w:85, p:75, b:65,
\* u:55} gives good for 97, bad for 70 and unusable for 60.
C2_AsClaimed ==
    (HigherCall /\ thresholds = THR_acc) =>
        /\ (value = Some(970) => label = Some("good"))
        /\ (value = Some(700) => label = Some("bad"))
        /\ (value = Some(600) => label = Some("unusable"))

\* C2 amended: higher-is-better over {g:95, w:85, p:75, b:65, u:55} gives
\* good for 97, bad for 70 and bad for 60 (60 is below every limit of
\* g,w,p,b but not below u's 55, so the fallback answers with b).
C2_HigherExamples ==
    (HigherCall /\ thresholds = THR_acc) =>
        /\ (value = Some(970) => label = Some("good"))
        /\ (value = Some(700) => label = Some("bad"))
        /\ (value = Some(600) => label = Some("bad"))

C2_Witness ==
    HigherCall /\ thresholds = THR_acc /\ value = Some(600) /\ label = Some("bad")

\* the positions of SeverityOrder whose code is configured with a limit the
\* value satisfies
Matching(v, thr, hib) ==
    {i \in 1..Len(SeverityOrder) :
        /\ SeverityOrder[i] \in DOMAIN thr
        /\ IF hib THEN thr[SeverityOrder[i]] <= v ELSE thr[SeverityOrder[i]] >= v}

Degraded(thr) ==
    IF "b" \in DOMAIN thr THEN "bad"
    ELSE IF "p" \in DOMAIN thr THEN "poor" ELSE "warn"

\* C3: for a non-null value and a non-empty sparse ladder, lower-is-better
\* classification returns the label of the first of g,w,p,b that is
\* configured with limit >= value; with none, unusable when u is configured
\* and value > u's limit, otherwise bad / poor / warn by what is configured.
C3_LowerIsBetter ==
    (LowerCall /\ value # None /\ DOMAIN thresholds # {}) =>
        LET v == TheValue(value)
            m == Matching(v, thresholds, FALSE)
        IN  label = Some(IF m # {} THEN LabelOf[SeverityOrder[Min(m)]]
                         ELSE IF "u" \in DOMAIN thresholds /\ v > thresholds["u"]
                              THEN "unusable"
                              ELSE Degraded(thresholds))

C3_Witness ==
    /\ LowerCall /\ value # None
    /\ DOMAIN thresholds = {"w", "p", "u"}
    /\ Matching(TheValue(value), thresholds, FALSE) = {}
    /\ TheValue(value) <= thresholds["u"]
    /\ label = Some("poor")

\* C4: for a non-null value and a non-empty sparse ladder, higher-is-better
\* classification returns the label of the first of g,w,p,b that is
\* configured with limit <= value; with none, unusable when u is configured
\* and value < u's limit, otherwise bad / poor / warn by what is configured.
C4_HigherIsBetter ==
    (HigherCall /\ value # None /\ DOMAIN thresholds # {}) =>
        LET v == TheValue(value)
            m == Matching(v, thresholds, TRUE)
        IN  label = Some(IF m # {} THEN LabelOf[SeverityOrder[Min(m)]]
                         ELSE IF "u" \in DOMAIN thresholds /\ v < thresholds["u"]
                              THEN "unusable"
                              ELSE Degraded(thresholds))

C4_Witness ==
    /\ HigherCall /\ value # None
    /\ DOMAIN thresholds = {"g", "u"}
    /\ Matching(TheValue(value), thresholds, TRUE) = {}
    /\ TheValue(value) < thresholds["u"]
    /\ label = Some("unusable")

ClassifierCall == call \in {"classify_threshold", "_classify_threshold"}

\* C5: in both directions and both implementations the classifier returns a
\* label (one of good, warn, poor, bad, unusable) if and only if the value is
\* non-null and the ladder has a configured code; otherwise it returns None.
C5_LabelIffInputs ==
    ClassifierCall =>
        IF value # None /\ DOMAIN thresholds # {}
        THEN \E l \in Labels : label = Some(l)
        ELSE label = None

C5_Witness ==
    /\ call = "_classify_threshold" /\ higher_is_better
    /\ value # None /\ DOMAIN thresholds = {"w"}
    /\ TheValue(value) < thresholds["w"]
    /\ label = Some("warn")

\* the tooltip the claim describes: the configured codes among g,w,p,b in
\* order with the non-strict comparator, then u (if configured) once, last,
\* with the strict comparator
RECURSIVE DescribedParts(_, _, _)
DescribedParts(i, thr, hib) ==
    IF i > Len(SeverityOrder) THEN <<>>
    ELSE (IF SeverityOrder[i] \in DOMAIN thr
          THEN << [label |-> THR_desc[SeverityOrder[i]],
                   comparator |-> IF hib THEN ">=" ELSE "<=",
                   limit |-> thr[SeverityOrder[i]]] >>
          ELSE <<>>) \o DescribedParts(i + 1, thr, hib)

DescribedTooltip(thr, hib) ==
    DescribedParts(1, thr, hib)
    \o (IF "u" \in DOMAIN thr
        THEN << [label |-> "UNUSABLE", comparator |-> IF hib THEN "<" ELSE ">",
                 limit |-> thr["u"]] >>
        ELSE <<>>)

\* C6: the tooltip of format_threshold_tooltip and of
\* _format_threshold_tooltip has exactly one segment per configured code: the
\* configured codes among g,w,p,b in order with <= / >=, then, only when u is
\* configured, one last segment for u with > / <; an empty ladder gives an
\* empty tooltip.
C6_TooltipSegments ==
    call \in {"format_threshold_tooltip", "_format_threshold_tooltip"} =>
        /\ tooltip = DescribedTooltip(thresholds, higher_is_better)
        /\ Len(tooltip) = Cardinality(DOMAIN thresholds)

\* the half of C6 that holds: the tooltip of measurement.py
TooltipSegmentsMeasurement ==
    call = "format_threshold_tooltip" =>
        /\ tooltip = DescribedTooltip(thresholds, higher_is_better)
        /\ Len(tooltip) = Cardinality(DOMAIN thresholds)


-----------------------------------------------------------------------------
(* Text.  A str is the sequence of its characters.  A key name that the    *)
(* code only ever compares as a whole (an alias such as "Site Code") is    *)
(* written as one symbol: it contains no colon and neither starts nor ends *)
(* with whitespace, which is all the patterns below look at.               *)

Whitespace == {" ", "\t"}
Digits == {"0", "1", "2", "3", "4", "5", "6", "7", "8", "9"}

Max(S) == CHOOSE x \in S : \A y \in S : x >= y

\* str.strip()
Strip(t) ==
    LET solid == {i \in 1..Len(t) : t[i] \notin Whitespace}
    IN  IF solid = {} THEN <<>> ELSE SubSeq(t, Min(solid), Max(solid))

\* str.lstrip()
LStrip(t) ==
    LET solid == {i \in 1..Len(t) : t[i] \notin Whitespace}
    IN  IF solid = {} THEN <<>> ELSE SubSeq(t, Min(solid), Len(t))

\* the number of consecutive characters of t from position i on that are in S
RECURSIVE Span(_, _, _)
Span(t, i, S) ==
    IF i > Len(t) \/ t[i] \notin S THEN 0 ELSE 1 + Span(t, i + 1, S)

\* whether t holds the literal lit at position i
HasAt(t, i, lit) ==
    /\ i + Len(lit) - 1 <= Len(t)
    /\ \A j \in 1..Len(lit) : t[i + j - 1] = lit[j]

-----------------------------------------------------------------------------
(* Key/value extraction: config.KV_RE and the loop of parse_project_text   *)

\* the {1,128} of KV_RE
KeyMax == 128

\* KV_RE.match(line): None, or the groups <<group(1), group(2)>> of
\* ^\s*([^:]{1,128})\s*:\s*(.+?)\s*$
KV_RE_match(line) ==
    LET colons == {i \in 1..Len(line) : line[i] = ":"}
    IN  IF colons = {} THEN None
        ELSE LET c == Min(colons)
                 before == SubSeq(line, 1, c - 1)
                 after == SubSeq(line, c + 1, Len(line))
             IN  IF Len(before) = 0 \/ Len(after) = 0 THEN None
                 ELSE IF Len(Strip(before)) > KeyMax THEN None
                 ELSE Some(<<
                        \* the leading \s* is greedy and leaves group 1 one
                        \* character when there is nothing else
                        IF LStrip(before) = <<>> THEN <<before[Len(before)]>>
                        ELSE IF Len(LStrip(before)) > KeyMax
                             THEN SubSeq(LStrip(before), 1, KeyMax)
                             ELSE LStrip(before),
                        \* \s* before the lazy group 2 likewise
                        IF Strip(after) = <<>> THEN <<after[Len(after)]>>
                        ELSE Strip(after) >>)

\* a dict with key k set to v
Put(d, k, v) == [x \in DOMAIN d \cup {k} |-> IF x = k THEN v ELSE d[x]]

\* StoreLine that assigns keys[k] = v without the membership test
StoreLineOverwriting(d, line) ==
    LET m == KV_RE_match(line)
    IN  IF m = None THEN d
        ELSE Put(d, Strip(TheValue(m)[1]), Strip(TheValue(m)[2]))

\* one iteration of the extraction loop: the dict after the line
StoreLine(d, line) ==
    LET m == KV_RE_match(line)
    IN  IF m = None THEN d
        ELSE LET k == Strip(TheValue(m)[1])
                 v == Strip(TheValue(m)[2])
             IN  IF k \notin DOMAIN d THEN Put(d, k, v) ELSE d

-----------------------------------------------------------------------------
(* Numeric coercion: nfloat (measurement.py) and _parse_float              *)
(* (measurement_analisys.py).  A float is the integer value * 10^FracDigits, *)
(* exact for every text with at most FracDigits digits after the point: a  *)
(* generated text of MaxNumLen characters has at most MaxNumLen - 2.       *)

FracDigits == MaxNumLen - 2
Scale == 10 ^ FracDigits

DigitOrder == <<"0", "1", "2", "3", "4", "5", "6", "7", "8", "9">>
DigitValue(c) == (CHOOSE k \in 1..10 : DigitOrder[k] = c) - 1

\* the value of a run of decimal digits
RECURSIVE DigitsValue(_)
DigitsValue(ds) ==
    IF ds = <<>> THEN 0
    ELSE 10 * DigitsValue(SubSeq(ds, 1, Len(ds) - 1)) + DigitValue(ds[Len(ds)])

\* str.replace(",", ".")
ReplaceCommas(t) == [i \in 1..Len(t) |-> IF t[i] = "," THEN "." ELSE t[i]]

\* the length of the match of -?\d+(?:\.\d+)? at position i of t, 0 for none
NumberMatchLen(t, i) ==
    LET sign == IF i <= Len(t) /\ t[i] = "-" THEN 1 ELSE 0
        int == Span(t, i + sign, Digits)
        dot == i + sign + int
        frac == IF dot <= Len(t) /\ t[dot] = "." THEN Span(t, dot + 1, Digits) ELSE 0
    IN  IF int = 0 THEN 0
        ELSE sign + int + (IF frac > 0 THEN 1 + frac ELSE 0)

\* float(m.group(0)) of a text matched by -?\d+(?:\.\d+)?
ToFloat(t) ==
    LET sign == IF t[1] = "-" THEN 1 ELSE 0
        int == Span(t, 1 + sign, Digits)
        intpart == SubSeq(t, 1 + sign, sign + int)
        fracpart == SubSeq(t, sign + int + 2, Len(t))
        magnitude == DigitsValue(intpart) * Scale
                     + DigitsValue(fracpart) * 10 ^ (FracDigits - Len(fracpart))
    IN  IF sign = 1 THEN 0 - magnitude ELSE magnitude

\* re.search(r"-?\d+(?:\.\d+)?", t): None or the matched text
NumberSearch(t) ==
    LET starts == {i \in 1..Len(t) : NumberMatchLen(t, i) > 0}
    IN  IF starts = {} THEN None
        ELSE Some(SubSeq(t, Min(starts), Min(starts) + NumberMatchLen(t, Min(starts)) - 1))

\* nfloat that searches the text as given, commas kept
nfloat_keeping_commas(x) ==
    IF x = None THEN None
    ELSE LET m == NumberSearch(TheValue(x))
         IN  IF m = None THEN None ELSE Some(ToFloat(TheValue(m)))

\* nfloat (parse_project_text, parse_sets_text, list_measurements)
nfloat(x) ==
    IF x = None THEN None
    ELSE LET m == NumberSearch(ReplaceCommas(TheValue(x)))
         IN  IF m = None THEN None ELSE Some(ToFloat(TheValue(m)))

\* _parse_float (measurement_analisys.py, measurement_report.py)
_parse_float(x) ==
    IF x = None THEN None
    ELSE LET m == NumberSearch(ReplaceCommas(TheValue(x)))
         IN  IF m = None THEN None ELSE Some(ToFloat(TheValue(m)))

-----------------------------------------------------------------------------
(* parse_project_text after the extraction loop                            *)

\* the dict key of a name written as one symbol
KeyOf(name) == <<name>>

\* pick that returns the first alias present, blank or not
RECURSIVE PickFirstPresent(_, _, _)
PickFirstPresent(d, names, i) ==
    IF i > Len(names) THEN <<>>
    ELSE IF KeyOf(names[i]) \in DOMAIN d
         THEN d[KeyOf(names[i])]
         ELSE PickFirstPresent(d, names, i + 1)

\* the loop of pick, from the i-th name on
RECURSIVE PickFrom(_, _, _)
PickFrom(d, names, i) ==
    IF i > Len(names) THEN <<>>
    ELSE IF KeyOf(names[i]) \in DOMAIN d /\ Strip(d[KeyOf(names[i])]) # <<>>
         THEN d[KeyOf(names[i])]
         ELSE PickFrom(d, names, i + 1)

pick(d, names) == PickFrom(d, names, 1)

NumberChars == Digits \cup {".", "+", "-"}
Long == <<"L", "o", "n", "g", ":">>
Elev == <<"E", "l", "e", "v", ":">>

\* latlon_split with the pattern anchored at both ends
latlon_split_anchored(t) ==
    IF t = <<>> THEN <<t, <<>>, <<>>>>
    ELSE
    LET n1 == Span(t, 1, NumberChars)
        w1 == Span(t, 1 + n1, Whitespace)
        k1 == 1 + n1 + w1
        w2 == Span(t, k1 + Len(Long), Whitespace)
        b2 == k1 + Len(Long) + w2
        n2 == Span(t, b2, NumberChars)
        w3 == Span(t, b2 + n2, Whitespace)
        k2 == b2 + n2 + w3
        w4 == Span(t, k2 + Len(Elev), Whitespace)
        b3 == k2 + Len(Elev) + w4
        n3 == Span(t, b3, NumberChars)
    IN  IF /\ n1 > 0 /\ w1 > 0 /\ HasAt(t, k1, Long) /\ w2 > 0
           /\ n2 > 0 /\ w3 > 0 /\ HasAt(t, k2, Elev) /\ w4 > 0 /\ n3 > 0
           /\ b3 + n3 - 1 = Len(t)
        THEN <<SubSeq(t, 1, n1), SubSeq(t, b2, b2 + n2 - 1), SubSeq(t, b3, b3 + n3 - 1)>>
        ELSE <<t, <<>>, <<>>>>

\* latlon_split: re.search of
\* ^([\d.+-]+)\s+Long:\s+([\d.+-]+)\s+Elev:\s+([\d.+-]+) and its three groups
latlon_split(t) ==
    IF t = <<>> THEN <<<<>>, <<>>, <<>>>>
    ELSE
    LET n1 == Span(t, 1, NumberChars)
        w1 == Span(t, 1 + n1, Whitespace)
        k1 == 1 + n1 + w1
        w2 == Span(t, k1 + Len(Long), Whitespace)
        b2 == k1 + Len(Long) + w2
        n2 == Span(t, b2, NumberChars)
        w3 == Span(t, b2 + n2, Whitespace)
        k2 == b2 + n2 + w3
        w4 == Span(t, k2 + Len(Elev), Whitespace)
        b3 == k2 + Len(Elev) + w4
        n3 == Span(t, b3, NumberChars)
    IN  IF /\ n1 > 0 /\ w1 > 0 /\ HasAt(t, k1, Long) /\ w2 > 0
           /\ n2 > 0 /\ w3 > 0 /\ HasAt(t, k2, Elev) /\ w4 > 0 /\ n3 > 0
        THEN <<SubSeq(t, 1, n1), SubSeq(t, b2, b2 + n2 - 1), SubSeq(t, b3, b3 + n3 - 1)>>
        ELSE <<t, <<>>, <<>>>>

LatitudeAliases == <<"Latitude (dd,+N)", "Lat", "Latitude">>

\* the fields of site that are the result of one pick, with their aliases
PickedFields ==
    << <<"Project Name", <<"Project Name">>>>,
       <<"Station / Site Name", <<"Site Name", "Name">>>>,
       <<"Site Code", <<"Site Code">>>>,
       <<"Gradient (µGal/cm)", <<"Gradient">>>>,
       <<"Setup Height (cm)", <<"Setup Height (cm)", "Setup Height">>>>,
       <<"Transfer Height (cm)", <<"Transfer Height (cm)", "Transfer Height">>>>,
       <<"Factory Height (cm)", <<"Factory Height (cm)", "Factory Height">>>>,
       <<"Barometer Factor (µGal/mBar)",
         <<"Barometer Factor (µGal/mBar)", "Barometric Admittance Factor">>>>,
       <<"Polar X (arc sec)", <<"Polar X (arc sec)", "Polar X">>>>,
       <<"Polar Y (arc sec)", <<"Polar Y (arc sec)", "Polar Y">>>>,
       <<"Operator", <<"Operator">>>>,
       <<"Instrument", <<"Meter Type", "Instrument">>>>,
       <<"Instrument S/N", <<"Meter S/N", "Serial">>>>,
       <<"Acquisition Version", <<"g Acquisition Version">>>>,
       <<"Processing Version", <<"g Processing Version">>>>,
       <<"Processing Date", <<"Date">>>>,
       <<"Processing Time", <<"Time">>>>,
       <<"Gravity (µGal)", <<"Gravity (µGal)", "Gravity">>>> >>

\* the fields of qm that are nfloat of one pick, with their aliases
MetricFields ==
    << <<"project_set_scatter",
         <<"Project Set Scatter (µGal)", "Measurement Precision", "Project Set Scatter">>>>,
       <<"set_scatter_overall", <<"Set Scatter (µGal)", "Set Scatter">>>>,
       <<"uncertainty_per_set", <<"Uncertainty per Set (µGal)", "Uncertainty per Set">>>>,
       <<"total_uncertainty", <<"Total Uncertainty", "Overall Uncertainty">>>> >>

GravityAliases == <<"Gravity (µGal)", "Gravity">>

AliasesOf(table, field) ==
    table[CHOOSE i \in 1..Len(table) : table[i][1] = field][2]

FieldNames(table) == {table[i][1] : i \in 1..Len(table)}

\* the site dict of the returned record
Site(d) ==
    LET ll == latlon_split(pick(d, LatitudeAliases))
    IN  [f \in FieldNames(PickedFields)
               \cup {"Latitude (dd,+N)", "Longitude (dd, +E)", "Elevation (m)"} |->
            CASE f = "Latitude (dd,+N)" -> ll[1]
              [] f = "Longitude (dd, +E)" -> ll[2]
              [] f = "Elevation (m)" -> ll[3]
              [] OTHER -> pick(d, AliasesOf(PickedFields, f))]

\* a value of the qm dict carries its Python type
PyFloat(n) == [kind |-> "float", val |-> n]
PyStr(t) == [kind |-> "str", val |-> t]

\* the qm dict of the returned record
QualityMetrics(d) ==
    [f \in FieldNames(MetricFields) \cup {"gravity"} |->
        IF f = "gravity"
        THEN (IF pick(d, GravityAliases) = <<>> THEN None
              ELSE Some(PyStr(pick(d, GravityAliases))))
        ELSE LET n == nfloat(Some(pick(d, AliasesOf(MetricFields, f))))
             IN  IF n = None THEN None ELSE Some(PyFloat(TheValue(n)))]

-----------------------------------------------------------------------------
(* parse_project_text as a state machine: the extraction loop line by      *)
(* line, then the construction of the returned record                      *)

ReadLine ==
    /\ call = "parse_project_text"
    /\ ~returned
    /\ lineno < Len(lines)
    /\ keys' = StoreLine(keys, lines[lineno + 1])
    /\ lineno' = lineno + 1
    /\ UNCHANGED <<call, lines, site, qm, returned, cvars, nvars, svars, avars, rvars>>

Return ==
    /\ call = "parse_project_text"
    /\ ~returned
    /\ lineno = Len(lines)
    /\ site' = Site(keys)
    /\ qm' = QualityMetrics(keys)
    /\ returned' = TRUE
    /\ UNCHANGED <<call, lines, lineno, keys, cvars, nvars, svars, avars, rvars>>

NextProject == ReadLine \/ Return

\* every text of at most n lines drawn from L
Texts(L, n) == UNION {[1..k -> L] : k \in 0..n}

Colon == <<":">>

\* what stands before the first colon of a generated line
KeyTexts ==
    { <<>>, <<" ">>, <<"A">>, <<"B">>, <<" ", "A">>, <<"A", " ">> }

\* what follows it
ValueTexts ==
    { <<>>, <<" ">>, <<"1">>, <<" ", "1">>, <<" ", "2">>, <<"1", ":", "2">> }

KVLines ==
    KeyTexts \cup {k \o Colon \o v : k \in KeyTexts, v \in ValueTexts}

Sp == <<" ">>
LineB == <<"B", ":", "2">>

\* a key of KeyMax characters between spaces, and one of KeyMax + 1
LongKeyLines ==
    { Sp \o [i \in 1..n |-> "A"] \o Sp \o Colon \o <<"1">> : n \in {KeyMax, KeyMax + 1} }

InitKV ==
    /\ call = "parse_project_text"
    /\ \/ lines \in Texts(KVLines, MaxKVLines)
       \/ \E long \in LongKeyLines : lines = <<LineB, long, LineB>>
    /\ lineno = 0 /\ keys = <<>> /\ site = <<>> /\ qm = <<>> /\ returned = FALSE
    /\ IdleClassify
    /\ IdleNumber
    /\ IdleSets
    /\ IdleAnalysis
    /\ IdleRequests

SpecKV == InitKV /\ [][NextProject]_vars

\* the lines "<alias>:<rest>" of the aliases of one field
FieldRests ==
    { <<" ">>, <<" ", "x">>, <<" ", "1", ",", "5", " ", "m">> }

AliasLines(names) ==
    {KeyOf(names[i]) \o Colon \o r : i \in 1..Len(names), r \in FieldRests}

AliasLists ==
    {PickedFields[i][2] : i \in 1..Len(PickedFields)}
    \cup {MetricFields[i][2] : i \in 1..Len(MetricFields)}
    \cup {LatitudeAliases}

\* latitude values: "<t1> Long: <t2> Elev: <t3><tail>" and its near misses
CoordTokens ==
    { <<"4", "0", ".", "1", "2", "3">>, <<"-", "3", ".", "4", "5", "6">>,
      <<"6", "5", "0">>, <<"+">>, <<"x">>, <<>> }
Gaps == { <<>>, <<" ", "\t">> }
LongWords == { Long, <<"L", "o", "n", ":">> }
ElevWords == { Elev, <<"e", "l", "e", "v", ":">> }
Tails == { <<>>, <<" ", "m">>, <<"x">> }

\* the four gaps of a composite value: single spaces, but for one of them
GapChoices ==
    {<<Sp, Sp, Sp, Sp>>}
    \cup {[i \in 1..4 |-> IF i = k THEN g ELSE Sp] : k \in 1..4, g \in Gaps}

LatitudeValues ==
    CoordTokens
    \cup { t1 \o g[1] \o lw \o g[2] \o t2 \o g[3] \o ew \o g[4] \o t3 \o tl :
             t1 \in CoordTokens, t2 \in CoordTokens, t3 \in CoordTokens,
             g \in GapChoices, lw \in LongWords, ew \in ElevWords, tl \in Tails }

InitProject ==
    /\ call = "parse_project_text"
    /\ \/ \E names \in AliasLists : lines \in Texts(AliasLines(names), MaxLines)
       \/ \E v \in LatitudeValues : lines = <<KeyOf("Lat") \o Colon \o Sp \o v>>
    /\ lineno = 0 /\ keys = <<>> /\ site = <<>> /\ qm = <<>> /\ returned = FALSE
    /\ IdleClassify
    /\ IdleNumber
    /\ IdleSets
    /\ IdleAnalysis
    /\ IdleRequests

SpecProject == InitProject /\ [][NextProject]_vars

-----------------------------------------------------------------------------
(* The calls of numeric coercion                                           *)

NumberAlphabet == {"-", ".", ",", "1", "5", "a"}

\* every text over NumberAlphabet of at most MaxNumLen characters, and the
\* texts "1,5 µGal", "abc" and "-3.2"
NumberTexts ==
    UNION {[1..k -> NumberAlphabet] : k \in 0..MaxNumLen}
    \cup { <<"1", ",", "5", " ", "µ", "G", "a", "l">>, <<"a", "b", "c">>,
           <<"-", "3", ".", "2">> }

InitNumber ==
    /\ call = ""
    /\ raw \in {None} \cup {Some(t) : t \in NumberTexts}
    /\ number = None
    /\ IdleClassify
    /\ IdleProject
    /\ IdleSets
    /\ IdleAnalysis
    /\ IdleRequests

CallNfloat ==
    /\ call = ""
    /\ call' = "nfloat"
    /\ number' = nfloat(raw)
    /\ UNCHANGED <<raw, cvars, pvars, svars, avars, rvars>>

CallParseFloat ==
    /\ call = ""
    /\ call' = "_parse_float"
    /\ number' = _parse_float(raw)
    /\ UNCHANGED <<raw, cvars, pvars, svars, avars, rvars>>

NextNumber == CallNfloat \/ CallParseFloat

SpecNumber == InitNumber /\ [][NextNumber]_vars

-----------------------------------------------------------------------------
(* parse_sets_text: the set table of a *.set.txt export.  Indices are      *)
(* 0-based as in the code: line i of the code is set_lines[i + 1].         *)

Tab == "\t"
Comma == ","

\* [ln.strip() for ln in text.splitlines() if ln.strip()]
RECURSIVE StrippedNonBlank(_)
StrippedNonBlank(t) ==
    IF t = <<>> THEN <<>>
    ELSE (IF Strip(Head(t)) = <<>> THEN <<>> ELSE <<Strip(Head(t))>>)
         \o StrippedNonBlank(Tail(t))

\* lit in t
Contains(t, lit) == \E i \in 1..Len(t) : HasAt(t, i, lit)

SetName == <<"S", "e", "t">>
SigmaName == <<"S", "i", "g", "m", "a">>
SetScatterName == <<"S", "e", "t", " ", "S", "c", "a", "t", "t", "e", "r">>
ErrorName == <<"E", "r", "r", "o", "r">>
UncertName == <<"U", "n", "c", "e", "r", "t">>
AcceptName == <<"A", "c", "c", "e", "p", "t">>
RejectName == <<"R", "e", "j", "e", "c", "t">>

\* the number of first lines the header scan looks at: lines[:10]
HeaderScan == 10

\* ("Set" in ln and "\t" in ln) or ("Set" in ln and "," in ln)
LooksLikeHeader(ln) ==
    \/ Contains(ln, SetName) /\ Contains(ln, <<Tab>>)
    \/ Contains(ln, SetName) /\ Contains(ln, <<Comma>>)

\* the header index: the scan of lines[:10], then the fallback
HeaderIndex(ls) ==
    LET found == {i \in 0..(Min({HeaderScan, Len(ls)}) - 1) : LooksLikeHeader(ls[i + 1])}
    IN  IF found # {} THEN Min(found)
        ELSE IF Len(ls) > 4 THEN 3 ELSE 0

\* sep = "\t" if ("\t" in lines[hdr_idx]) else ","
Separator(header) == IF Contains(header, <<Tab>>) THEN Tab ELSE Comma

\* t.split(sep)
RECURSIVE Split(_, _)
Split(t, sep) ==
    LET at == {i \in 1..Len(t) : t[i] = sep}
    IN  IF at = {} THEN <<t>>
        ELSE <<SubSeq(t, 1, Min(at) - 1)>> \o Split(SubSeq(t, Min(at) + 1, Len(t)), sep)

\* [c.strip() for c in ln.split(sep)]
Cells(ln, sep) == LET parts == Split(ln, sep) IN [i \in 1..Len(parts) |-> Strip(parts[i])]

\* col(name): hdr.index(name), -1 when the name is not in hdr
col(hdr, name) ==
    LET at == {i \in 0..(Len(hdr) - 1) : hdr[i + 1] = name}
    IN  IF at = {} THEN 0 - 1 ELSE Min(at)

\* idx = {...}
ColumnIndex(hdr) ==
    [ set |-> col(hdr, SetName),
      scatter |-> IF \E i \in 1..Len(hdr) : hdr[i] = SigmaName
                  THEN col(hdr, SigmaName) ELSE col(hdr, SetScatterName),
      sigma |-> col(hdr, ErrorName),
      rms |-> col(hdr, UncertName),
      acc |-> col(hdr, AcceptName),
      rej |-> col(hdr, RejectName) ]

\* get without the guard for a negative index: cols[-1] is the last field
get_negative_index(cols, i) ==
    IF i < 0 THEN cols[Len(cols)]
    ELSE IF 0 <= i /\ i < Len(cols) THEN cols[i + 1] ELSE <<>>

\* get(i) of one data line
get(cols, i) ==
    IF i < 0 THEN <<>>
    ELSE IF 0 <= i /\ i < Len(cols) THEN cols[i + 1] ELSE <<>>

\* str(n) of a positive int
RECURSIVE Str(_)
Str(n) ==
    IF n < 10 THEN <<DigitOrder[n + 1]>>
    ELSE Str(n \div 10) \o <<DigitOrder[(n % 10) + 1]>>

\* the integer nearest to n / d (d > 0), a tie going to the even one
RoundHalfEven(n, d) ==
    LET q == n \div d
        r == n - q * d
    IN  IF 2 * r < d THEN q
        ELSE IF 2 * r > d THEN q + 1
        ELSE IF q % 2 = 0 THEN q ELSE q + 1

\* round((acc_val * 100.0) / total, 1), as a float
Round1(acc_val, total) == RoundHalfEven(acc_val * 1000, total) * (Scale \div 10)

\* ratio that takes a missing count for 0
RatioMissingAsZero(acc_val, rej_val) ==
    LET a == IF acc_val = None THEN 0 ELSE TheValue(acc_val)
        total == a + (IF rej_val = None THEN 0 ELSE TheValue(rej_val))
    IN  IF total > 0 THEN Some(Round1(a, total)) ELSE None

\* ratio of one data line
Ratio(acc_val, rej_val) ==
    IF acc_val # None /\ rej_val # None
    THEN LET total == TheValue(acc_val) + TheValue(rej_val)
         IN  IF total > 0 THEN Some(Round1(TheValue(acc_val), total)) ELSE None
    ELSE None

\* the dict appended for one data line, n rows being there already
SetRow(cols, idx, n) ==
    LET acc_val == nfloat(Some(get(cols, idx.acc)))
        rej_val == nfloat(Some(get(cols, idx.rej)))
    IN  [ id |-> IF get(cols, idx.set) # <<>> THEN get(cols, idx.set) ELSE Str(n + 1),
          set_scatter |-> nfloat(Some(get(cols, idx.scatter))),
          set_sigma |-> nfloat(Some(get(cols, idx.sigma))),
          drop_rms |-> nfloat(Some(get(cols, idx.rms))),
          drop_accept |-> acc_val,
          drop_reject |-> rej_val,
          drop_acc_ratio |-> Ratio(acc_val, rej_val) ]

\* the header line, its separator, its names and the column binding
HeaderLine == set_lines[TheValue(hdr_idx) + 1]
sep == Separator(HeaderLine)
hdr == Cells(HeaderLine, sep)
idx == ColumnIndex(hdr)

\* lines 216-218: a text of fewer than 5 non-blank lines has no rows
ReturnNoRows ==
    /\ call = "parse_sets_text"
    /\ stage = "called"
    /\ Len(StrippedNonBlank(set_text)) < 5
    /\ set_lines' = StrippedNonBlank(set_text)
    /\ stage' = "returned"
    /\ UNCHANGED <<call, set_text, hdr_idx, set_pos, rows, cvars, pvars, nvars, avars, rvars>>

\* lines 216-245: the header is chosen
DetectHeader ==
    /\ call = "parse_sets_text"
    /\ stage = "called"
    /\ Len(StrippedNonBlank(set_text)) >= 5
    /\ set_lines' = StrippedNonBlank(set_text)
    /\ hdr_idx' = Some(HeaderIndex(StrippedNonBlank(set_text)))
    /\ stage' = "rows"
    /\ UNCHANGED <<call, set_text, set_pos, rows, cvars, pvars, nvars, avars, rvars>>

\* lines 255-277: one iteration of the loop over lines[hdr_idx+1:]
ReadRow ==
    /\ call = "parse_sets_text"
    /\ stage = "rows"
    /\ TheValue(hdr_idx) + 1 + set_pos < Len(set_lines)
    /\ LET cols == Cells(set_lines[TheValue(hdr_idx) + 1 + set_pos + 1], sep)
       IN  rows' = IF Len(cols) < 2 THEN rows
                   ELSE Append(rows, SetRow(cols, idx, Len(rows)))
    /\ set_pos' = set_pos + 1
    /\ UNCHANGED <<call, set_text, set_lines, hdr_idx, stage, cvars, pvars, nvars, avars, rvars>>

\* line 278
ReturnRows ==
    /\ call = "parse_sets_text"
    /\ stage = "rows"
    /\ TheValue(hdr_idx) + 1 + set_pos = Len(set_lines)
    /\ stage' = "returned"
    /\ UNCHANGED <<call, set_text, set_lines, hdr_idx, set_pos, rows, cvars, pvars, nvars, avars, rvars>>

NextSets == ReturnNoRows \/ DetectHeader \/ ReadRow \/ ReturnRows

\* cell texts
C_ == <<>>
C_0 == <<"0">>
C_1 == <<"1">>
C_2 == <<"2">>
C_3 == <<"3">>
C_4 == <<"4">>
C_5 == <<"5">>
C_6 == <<"6">>
C_7 == <<"7">>
C_9 == <<"9">>
C_15 == <<"1", "5">>
C_18 == <<"1", "8">>
C_50 == <<"5", ".", "0">>
C_08 == <<"0", ".", "8">>
C_12 == <<"1", ".", "2">>
C_m1 == <<"-", "1">>
C_x == <<"x">>
C_pad8 == <<" ", "8", " ">>
C_set == <<"s", "e", "t">>

\* sep.join(cells)
RECURSIVE Join(_, _)
Join(cells, s) ==
    IF cells = <<>> THEN <<>>
    ELSE IF Len(cells) = 1 THEN cells[1]
    ELSE cells[1] \o <<s>> \o Join(Tail(cells), s)

\* the names of generated header lines
FullHeader == <<SetName, SigmaName, ErrorName, UncertName, AcceptName, RejectName>>
LowerCaseHeader ==
    <<C_set, SigmaName, ErrorName, UncertName, AcceptName, RejectName>>
HeaderColumns ==
    { FullHeader,
      <<ErrorName, SetName, AcceptName, RejectName>>,
      <<SetScatterName, AcceptName, RejectName>>,
      <<SetScatterName, SigmaName, SetName>>,
      LowerCaseHeader }

\* the cells of generated data lines
ExampleRow == <<C_1, C_50, C_08, C_12, C_18, C_2>>
BlankSetRow == <<C_, C_50, C_08, C_12, C_18, C_2>>
DataCells ==
    { ExampleRow,
      BlankSetRow,
      <<C_7, C_, C_x, C_12, C_0, C_0>>,
      <<C_2, C_1, C_1, C_1, C_m1, C_3>>,
      <<C_2, C_1, C_1, C_1, C_m1, C_0>>,
      <<C_3, C_50>>,
      <<C_9>>,
      <<C_4, C_1, C_1, C_1, C_1, C_2>>,
      <<C_5, C_1, C_1, C_1, C_x, C_2>>,
      <<C_6, C_1, C_1, C_1, C_1, C_15>>,
      <<C_pad8, C_1, C_, C_, C_, C_>> }

\* lines before the header: no "Set", "Set" without a delimiter, a delimiter
\* without "Set"
Fillers == { C_x, SetName \o <<" ">> \o C_1, <<"a", Comma, "b">> }
BlankLine == <<" ">>

\* how many lines a generated text has before its header, at most
MaxPreamble == 10
\* how many data lines a generated text has after its header, at most
MaxRows == 2

\* texts that vary the place of the header: n fillers, a blank line or none
\* among them, a header or one more filler, up to two data lines
PlacementRows == <<ExampleRow, BlankSetRow>>
PlacementTexts ==
    { blank \o [i \in 1..n |-> f] \o <<h>> \o [i \in 1..k |-> Join(PlacementRows[i], s)] :
        blank \in {<<>>, <<BlankLine>>}, n \in 0..MaxPreamble, f \in Fillers,
        s \in {Tab, Comma},
        h \in {Join(FullHeader, Tab), Join(FullHeader, Comma)} \cup Fillers,
        k \in 0..2 }

\* texts that vary the header and the data lines: three fillers, a header,
\* up to MaxRows data lines with the header's separator
RowTexts ==
    { <<C_x, C_x, C_x, Join(hc, s)>> \o [i \in 1..Len(d) |-> Join(d[i], s)] :
        hc \in HeaderColumns, s \in {Tab, Comma},
        d \in UNION {[1..k -> DataCells] : k \in 1..MaxRows} }

InitSets ==
    /\ call = "parse_sets_text"
    /\ stage = "called"
    /\ set_text \in PlacementTexts \cup RowTexts
    /\ set_lines = <<>> /\ hdr_idx = None /\ set_pos = 0 /\ rows = <<>>
    /\ IdleClassify
    /\ IdleProject
    /\ IdleNumber
    /\ IdleAnalysis
    /\ IdleRequests

SpecSets == InitSets /\ [][NextSets]_vars

-----------------------------------------------------------------------------
(* Aggregation (measurement_analisys.py).  A float is the exact fraction   *)
(* <<num, den>> in lowest terms, den > 0; a standard deviation is kept as  *)
(* the fraction it is the square root of.  The values come from            *)
(* _parse_float, which never gives a NaN.                                  *)

Abs(n) == IF n < 0 THEN 0 - n ELSE n

RECURSIVE GCD(_, _)
GCD(a, b) == IF b = 0 THEN a ELSE GCD(b, a % b)

\* the float n / d
Frac(n, d) ==
    LET g == GCD(Abs(n), Abs(d))
        sign == IF d < 0 THEN 0 - 1 ELSE 1
    IN  <<(sign * n) \div g, (sign * d) \div g>>

Float(n) == <<n, 1>>
FracAdd(a, b) == Frac(a[1] * b[2] + b[1] * a[2], a[2] * b[2])
FracSub(a, b) == Frac(a[1] * b[2] - b[1] * a[2], a[2] * b[2])
FracMul(a, b) == Frac(a[1] * b[1], a[2] * b[2])
FracDiv(a, b) == Frac(a[1] * b[2], a[2] * b[1])
FracLeq(a, b) == a[1] * b[2] <= b[1] * a[2]

\* sum(values)
RECURSIVE FracSum(_)
FracSum(values) ==
    IF values = <<>> THEN Float(0) ELSE FracAdd(Head(values), FracSum(Tail(values)))

\* math.sqrt, kept as its argument
Sqrt(f) == [root_of |-> f]

\* _clean: [v for v in values if v is not None and not math.isnan(v)]
RECURSIVE _clean(_)
_clean(values) ==
    IF values = <<>> THEN <<>>
    ELSE (IF Head(values) = None THEN <<>> ELSE <<TheValue(Head(values))>>)
         \o _clean(Tail(values))

\* min(cleaned), max(cleaned)
FracMin(values) ==
    values[CHOOSE i \in 1..Len(values) : \A j \in 1..Len(values) : FracLeq(values[i], values[j])]
FracMax(values) ==
    values[CHOOSE i \in 1..Len(values) : \A j \in 1..Len(values) : FracLeq(values[j], values[i])]

\* statistics.fmean
fmean(values) == FracDiv(FracSum(values), Float(Len(values)))

\* statistics.stdev: the square root of the sample variance
stdev(values) ==
    LET mean == fmean(values)
        squares == [i \in 1..Len(values) |->
                       FracMul(FracSub(values[i], mean), FracSub(values[i], mean))]
    IN  Sqrt(FracDiv(FracSum(squares), Float(Len(values) - 1)))

\* stdev with the population denominator N
pstdev(values) ==
    LET mean == fmean(values)
        squares == [i \in 1..Len(values) |->
                       FracMul(FracSub(values[i], mean), FracSub(values[i], mean))]
    IN  Sqrt(FracDiv(FracSum(squares), Float(Len(values))))

\* _calc_stats with the population standard deviation
CalcStatsPopulation(values) ==
    LET cleaned == _clean(values)
    IN  IF cleaned = <<>>
        THEN [count |-> 0, min |-> None, max |-> None, avg |-> None, stdev |-> None]
        ELSE [ count |-> Len(cleaned),
               min |-> Some(FracMin(cleaned)),
               max |-> Some(FracMax(cleaned)),
               avg |-> Some(fmean(cleaned)),
               stdev |-> IF Len(cleaned) = 1 THEN Some(Sqrt(Float(0)))
                         ELSE Some(pstdev(cleaned)) ]

_calc_stats(values) ==
    LET cleaned == _clean(values)
    IN  IF cleaned = <<>>
        THEN [count |-> 0, min |-> None, max |-> None, avg |-> None, stdev |-> None]
        ELSE [ count |-> Len(cleaned),
               min |-> Some(FracMin(cleaned)),
               max |-> Some(FracMax(cleaned)),
               avg |-> Some(fmean(cleaned)),
               stdev |-> IF Len(cleaned) = 1 THEN Some(Sqrt(Float(0)))
                         ELSE Some(stdev(cleaned)) ]

\* the pairs that pass line 168, in order
RECURSIVE Weighable(_)
Weighable(pairs) ==
    IF pairs = <<>> THEN <<>>
    ELSE (IF \/ Head(pairs)[1] = None
             \/ Head(pairs)[2] = None
             \/ FracLeq(TheValue(Head(pairs)[2]), Float(0))
          THEN <<>> ELSE <<Head(pairs)>>)
         \o Weighable(Tail(pairs))

\* the average that weighs each value by its uncertainty
WeightedByUncertainty(pairs) ==
    LET used == Weighable(pairs)
        weights == [i \in 1..Len(used) |-> TheValue(used[i][2])]
        weighted_values == [i \in 1..Len(used) |-> FracMul(TheValue(used[i][1]), weights[i])]
    IN  IF used = <<>> THEN None
        ELSE Some(FracDiv(FracSum(weighted_values), FracSum(weights)))

_inverted_weighted_average(pairs) ==
    LET used == Weighable(pairs)
        weights == [i \in 1..Len(used) |-> FracDiv(Float(1), TheValue(used[i][2]))]
        weighted_values == [i \in 1..Len(used) |-> FracMul(TheValue(used[i][1]), weights[i])]
    IN  IF used = <<>> THEN None
        ELSE Some(FracDiv(FracSum(weighted_values), FracSum(weights)))

\* horizontal_shape(y, color, dash): None, or the shape as a record
horizontal_shape(y, color, dash) ==
    IF y = None THEN None
    ELSE Some([type |-> "line", y0 |-> TheValue(y), y1 |-> TheValue(y),
               color |-> color, dash |-> dash])

\* the loop that appends every candidate, None included
ShapesWithNone(candidates) ==
    [i \in 1..Len(candidates) |->
        IF candidates[i] = None
        THEN [type |-> "line", y0 |-> Float(0), y1 |-> Float(0), color |-> "", dash |-> ""]
        ELSE TheValue(candidates[i])]

\* the loop of lines 224-231: the shapes that are not None, in order
RECURSIVE Shapes(_)
Shapes(candidates) ==
    IF candidates = <<>> THEN <<>>
    ELSE (IF Head(candidates) = None THEN <<>> ELSE <<TheValue(Head(candidates))>>)
         \o Shapes(Tail(candidates))

\* the band that needs the gravity only and takes a missing tu for 0
BandOfGravity(m, sign) ==
    IF m.gravity = None THEN None
    ELSE Some(FracAdd(TheValue(m.gravity),
                      FracMul(Float(sign), IF m.tu = None THEN Float(0) ELSE TheValue(m.tu))))

\* one side of the band of one measurement: gravity + sign * tu, or None
Band(m, sign) ==
    IF m.gravity = None \/ m.tu = None THEN None
    ELSE Some(FracAdd(TheValue(m.gravity), FracMul(Float(sign), TheValue(m.tu))))

_build_chart_payload(sel) ==
    LET gravity_values == [i \in 1..Len(sel) |-> sel[i].gravity]
        gravity_stats == _calc_stats(gravity_values)
        avg_value == gravity_stats.avg
        weighted_value == _inverted_weighted_average([i \in 1..Len(sel) |-> <<sel[i].gravity, sel[i].tu>>])
        min_value == gravity_stats.min
        max_value == gravity_stats.max
    IN  [ labels |-> [i \in 1..Len(sel) |-> sel[i].title],
          gravity |-> gravity_values,
          tu_open |-> [i \in 1..Len(sel) |-> Band(sel[i], 0 - 1)],
          tu_close |-> [i \in 1..Len(sel) |-> Band(sel[i], 1)],
          tu_high |-> [i \in 1..Len(sel) |-> Band(sel[i], 1)],
          tu_low |-> [i \in 1..Len(sel) |-> Band(sel[i], 0 - 1)],
          lines |-> [avg |-> avg_value, weighted |-> weighted_value,
                     min |-> min_value, max |-> max_value],
          shapes |-> Shapes(<< horizontal_shape(avg_value, "#dc2626", "solid"),
                               horizontal_shape(weighted_value, "#7c3aed", "solid"),
                               horizontal_shape(min_value, "#0ea5e9", "dot"),
                               horizontal_shape(max_value, "#0ea5e9", "dot") >>) ]

\* how many measurements are selected, at most
MaxSelected == 3

Titles == <<"m1", "m2", "m3", "m4", "m5">>

GravityValues == {None} \cup {Some(Float(g)) : g \in {10, 12, 14}}
TuValues == {None} \cup {Some(Float(u)) : u \in {0, 1, 2}}

\* a measurement as _collect_measurements builds it, the fields the
\* aggregation reads
MeasurementSummary(i, g, u) == [title |-> Titles[i], gravity |-> g, tu |-> u]

\* (100, tu 2), (104, tu 1); a negative tu; a negative gravity
ExamplePairs ==
    << MeasurementSummary(1, Some(Float(100)), Some(Float(2))),
       MeasurementSummary(2, Some(Float(104)), Some(Float(1))) >>
NegativeSelections ==
    { << MeasurementSummary(1, Some(Float(g)), Some(Float(0 - 1))),
         MeasurementSummary(2, Some(Float(0 - 5)), u) >> :
        g \in {10, 12}, u \in TuValues }

\* the selection of n measurements with these gravity and tu values
Selection(n, gs, us) == [i \in 1..n |-> MeasurementSummary(i, gs[i], us[i])]

InitAnalysis ==
    /\ call = ""
    /\ \/ \E n \in 0..MaxSelected :
             \E gs \in [1..n -> GravityValues], us \in [1..n -> TuValues] :
                selected = Selection(n, gs, us)
       \/ selected \in {ExamplePairs} \cup NegativeSelections
    /\ stats = <<>> /\ weighted = None /\ payload = <<>>
    /\ IdleClassify
    /\ IdleProject
    /\ IdleNumber
    /\ IdleSets
    /\ IdleRequests

\* _render_response, line 260: _calc_stats([m.gravity for m in selected])
CallCalcStats ==
    /\ call = ""
    /\ call' = "_calc_stats"
    /\ stats' = _calc_stats([i \in 1..Len(selected) |-> selected[i].gravity])
    /\ UNCHANGED <<selected, weighted, payload, cvars, pvars, nvars, svars, rvars>>

CallInvertedWeightedAverage ==
    /\ call = ""
    /\ call' = "_inverted_weighted_average"
    /\ weighted' = _inverted_weighted_average(
                       [i \in 1..Len(selected) |-> <<selected[i].gravity, selected[i].tu>>])
    /\ UNCHANGED <<selected, stats, payload, cvars, pvars, nvars, svars, rvars>>

CallBuildChartPayload ==
    /\ call = ""
    /\ call' = "_build_chart_payload"
    /\ payload' = _build_chart_payload(selected)
    /\ UNCHANGED <<selected, stats, weighted, cvars, pvars, nvars, svars, rvars>>

NextAnalysis == CallCalcStats \/ CallInvertedWeightedAverage \/ CallBuildChartPayload

SpecAnalysis == InitAnalysis /\ [][NextAnalysis]_vars

-----------------------------------------------------------------------------
(* Claims about key/value extraction                                       *)

\* the lines among the first n that KV_RE matches, and what each contributes
MatchedLines(n) == {i \in 1..n : KV_RE_match(lines[i]) # None}
LineKey(i) == Strip(TheValue(KV_RE_match(lines[i]))[1])
LineValue(i) == Strip(TheValue(KV_RE_match(lines[i]))[2])

LineA1 == <<"A", ":", " ", "1">>
LineA2 == <<"A", ":", " ", "2">>

\* C7: extraction is first-occurrence-wins: after any number of lines the map
\* holds exactly the keys of the matching lines read, each with the value of
\* the first matching line that has the key, so a later line with the same key
\* changes nothing; the lines 'A: 1', 'A: 2' give {A: '1'}.
C7_FirstOccurrenceWins ==
    /\ DOMAIN keys = {LineKey(i) : i \in MatchedLines(lineno)}
    /\ \A k \in DOMAIN keys :
          keys[k] = LineValue(Min({i \in MatchedLines(lineno) : LineKey(i) = k}))
    /\ (lines = <<LineA1, LineA2>> /\ lineno = 2) =>
          (DOMAIN keys = {<<"A">>} /\ keys[<<"A">>] = <<"1">>)

C7_Witness ==
    /\ lineno = 2
    /\ MatchedLines(2) = {1, 2}
    /\ LineKey(1) = LineKey(2)
    /\ LineValue(1) # LineValue(2)
    /\ keys[LineKey(2)] = LineValue(1)

-----------------------------------------------------------------------------
(* Claims about the site descriptor                                        *)

NonBlank(t) == \E i \in 1..Len(t) : t[i] \notin Whitespace

\* the value of the first alias that is a key with a non-blank value, "" when
\* there is none
FirstNonBlank(d, names) ==
    LET usable == {i \in 1..Len(names) :
                      KeyOf(names[i]) \in DOMAIN d /\ NonBlank(d[KeyOf(names[i])])}
    IN  IF usable = {} THEN <<>> ELSE d[KeyOf(names[Min(usable)])]

Coordinates == <<site["Latitude (dd,+N)"], site["Longitude (dd, +E)"], site["Elevation (m)"]>>

\* C8: every field of the site descriptor is resolved over its ordered alias
\* list: it is the value of the first alias that is a key with a non-blank
\* value, and "" when there is none (the latitude value so resolved is what
\* latlon_split decodes into the three coordinate fields).
C8_PickFirstNonBlank ==
    returned =>
        /\ \A i \in 1..Len(PickedFields) :
              site[PickedFields[i][1]] = FirstNonBlank(keys, PickedFields[i][2])
        /\ Coordinates = latlon_split(FirstNonBlank(keys, LatitudeAliases))

\* a present-but-blank first alias, and the second alias is used
C8_Witness ==
    /\ returned
    /\ KeyOf("Setup Height (cm)") \in DOMAIN keys
    /\ keys[KeyOf("Setup Height (cm)")] = <<>>
    /\ KeyOf("Setup Height") \in DOMAIN keys
    /\ site["Setup Height (cm)"] = keys[KeyOf("Setup Height")]
    /\ site["Setup Height (cm)"] # <<>>

IsRun(t) == t # <<>> /\ \A i \in 1..Len(t) : t[i] \in NumberChars

\* the places <<p, q>> of "Long:" and "Elev:" in t such that t begins
\* "<run> Long: <run> Elev: <run>", the runs made of digits, '.', '+', '-'
ShapePlaces(t) ==
    {pq \in (1..Len(t)) \X (1..Len(t)) :
        LET p == pq[1]
            q == pq[2]
            a == SubSeq(t, 1, p - 1)
            b == SubSeq(t, p + Len(Long), q - 1)
            c == SubSeq(t, q + Len(Elev), Len(t))
        IN  /\ p + Len(Long) <= q
            /\ HasAt(t, p, Long) /\ HasAt(t, q, Elev)
            /\ IsRun(Strip(a)) /\ a[1] \notin Whitespace /\ a[Len(a)] \in Whitespace
            /\ IsRun(Strip(b)) /\ b[1] \in Whitespace /\ b[Len(b)] \in Whitespace
            /\ c # <<>> /\ c[1] \in Whitespace
            /\ Span(LStrip(c), 1, NumberChars) > 0}

ShapeRuns(t, pq) ==
    LET c == LStrip(SubSeq(t, pq[2] + Len(Elev), Len(t)))
    IN  << Strip(SubSeq(t, 1, pq[1] - 1)),
           Strip(SubSeq(t, pq[1] + Len(Long), pq[2] - 1)),
           SubSeq(c, 1, Span(c, 1, NumberChars)) >>

\* the value is exactly "<run> Long: <run> Elev: <run>", nothing after it
WholeShape(t, pq) ==
    IsRun(LStrip(SubSeq(t, pq[2] + Len(Elev), Len(t))))

LatitudeValue == FirstNonBlank(keys, LatitudeAliases)

Lat40 == <<"4", "0", ".", "1", "2", "3">>
Lon3 == <<"-", "3", ".", "4", "5", "6">>
Elev650 == <<"6", "5", "0">>

\* C9 as the claim states it: a latitude value of the shape
\* '<number> Long: <number> Elev: <number>' gives the three numbers, every
\* other non-empty value is kept whole as latitude with longitude and
\* elevation empty, and an absent latitude gives three empty strings.
C9_AsClaimed ==
    returned =>
        LET v == LatitudeValue
            whole == {pq \in ShapePlaces(v) : WholeShape(v, pq)}
        IN  IF v = <<>> THEN Coordinates = << <<>>, <<>>, <<>> >>
            ELSE IF whole # {}
                 THEN Coordinates = ShapeRuns(v, CHOOSE pq \in whole : TRUE)
                 ELSE Coordinates = <<v, <<>>, <<>>>>

\* C9 amended: a latitude value that begins with
\* '<run> Long: <run> Elev: <run>' (runs of digits, '.', '+', '-', separated
\* by whitespace) gives the three runs, whatever follows the third run being
\* dropped; every other non-empty value is kept whole as latitude with
\* longitude and elevation empty; an absent latitude gives three empty strings.
C9_CompositeLatitude ==
    returned =>
        LET v == LatitudeValue
        IN  /\ IF v = <<>> THEN Coordinates = << <<>>, <<>>, <<>> >>
               ELSE IF ShapePlaces(v) # {}
                    THEN Coordinates = ShapeRuns(v, CHOOSE pq \in ShapePlaces(v) : TRUE)
                    ELSE Coordinates = <<v, <<>>, <<>>>>
            /\ v = Lat40 \o Sp \o Long \o Sp \o Lon3 \o Sp \o Elev \o Sp \o Elev650
                  => Coordinates = <<Lat40, Lon3, Elev650>>
            /\ v = Lat40 => Coordinates = <<Lat40, <<>>, <<>>>>

\* a composite value followed by " m": decoded, the unit dropped
C9_Witness ==
    /\ returned
    /\ LatitudeValue =
          Lat40 \o Sp \o Long \o Sp \o Lon3 \o Sp \o Elev \o Sp \o Elev650 \o <<" ", "m">>
    /\ Coordinates = <<Lat40, Lon3, Elev650>>

-----------------------------------------------------------------------------
(* Claims about numeric coercion                                           *)

\* optional '-', digits, optionally '.' and digits
IsNumberForm(u) ==
    /\ u # <<>>
    /\ LET body == IF u[1] = "-" THEN Tail(u) ELSE u
           dots == {k \in 1..Len(body) : body[k] = "."}
       IN  /\ body # <<>>
           /\ \A k \in 1..Len(body) : body[k] \in Digits \cup {"."}
           /\ Cardinality(dots) <= 1
           /\ 1 \notin dots /\ Len(body) \notin dots

RECURSIVE SumOver(_, _)
SumOver(S, f) ==
    IF S = {} THEN 0
    ELSE LET k == CHOOSE x \in S : TRUE IN f[k] + SumOver(S \ {k}, f)

\* the value of a text of that form, as a multiple of 10^-FracDigits
DecimalValue(u) ==
    LET body == IF u[1] = "-" THEN Tail(u) ELSE u
        dots == {k \in 1..Len(body) : body[k] = "."}
        dot == IF dots = {} THEN Len(body) + 1 ELSE Min(dots)
        weight == [k \in (1..Len(body)) \ dots |->
                      DigitValue(body[k])
                      * (IF k < dot THEN Scale * 10 ^ (dot - 1 - k)
                         ELSE 10 ^ (FracDigits - (k - dot)))]
        total == SumOver((1..Len(body)) \ dots, weight)
    IN  IF u[1] = "-" THEN 0 - total ELSE total

WithDots(t) == [i \in 1..Len(t) |-> IF t[i] = "," THEN "." ELSE t[i]]

\* the substrings <<i, j>> of t of the number form
Forms(t) ==
    {ij \in (1..Len(t)) \X (1..Len(t)) :
        ij[1] <= ij[2] /\ IsNumberForm(SubSeq(t, ij[1], ij[2]))}

\* the leftmost of them, and the longest of those that start there
LeftmostForm(t) ==
    LET i == Min({ij[1] : ij \in Forms(t)})
        j == Max({ij[2] : ij \in {x \in Forms(t) : x[1] = i}})
    IN  SubSeq(t, i, j)

Text15 == <<"1", ",", "5", " ", "µ", "G", "a", "l">>
TextAbc == <<"a", "b", "c">>
Text32 == <<"-", "3", ".", "2">>

\* C10: nfloat (and _parse_float) replaces every comma by a dot and returns
\* the value of the leftmost substring of the form optional '-', digits,
\* optional '.' and digits; it returns None exactly when the input is None or
\* holds no digit; '1,5 µGal' gives 1.5, 'abc' gives None, '-3.2' gives -3.2.
C10_NumericCoercion ==
    call \in {"nfloat", "_parse_float"} =>
        /\ (number = None) <=>
              (raw = None \/ \A i \in 1..Len(TheValue(raw)) : TheValue(raw)[i] \notin Digits)
        /\ number # None =>
              number = Some(DecimalValue(LeftmostForm(WithDots(TheValue(raw)))))
        /\ raw = Some(Text15) => number = Some((15 * Scale) \div 10)
        /\ raw = Some(TextAbc) => number = None
        /\ raw = Some(Text32) => number = Some(0 - (32 * Scale) \div 10)

C10_Witness ==
    call = "nfloat" /\ raw = Some(Text15) /\ number = Some((15 * Scale) \div 10)

-----------------------------------------------------------------------------
(* Claims about the quality metrics                                        *)

\* the raw string a metric field is resolved from
ResolvedMetric(f) ==
    IF f = "gravity" THEN pick(keys, GravityAliases)
    ELSE pick(keys, AliasesOf(MetricFields, f))

\* C11: in the returned record every field of qm (project_set_scatter,
\* set_scatter_overall, uncertainty_per_set, total_uncertainty, gravity) is
\* None or the float that numeric coercion makes of the resolved raw string;
\* no field holds a raw string.
C11_MetricsAreNumbers ==
    returned =>
        \A f \in DOMAIN qm :
            LET n == nfloat(Some(ResolvedMetric(f)))
            IN  qm[f] = (IF n = None THEN None ELSE Some(PyFloat(TheValue(n))))

\* the four fields that go through nfloat do hold None or the coerced float
MetricsCoercedButGravity ==
    returned =>
        \A f \in DOMAIN qm \ {"gravity"} :
            LET n == nfloat(Some(ResolvedMetric(f)))
            IN  qm[f] = (IF n = None THEN None ELSE Some(PyFloat(TheValue(n))))

-----------------------------------------------------------------------------
(* Claims about the set table                                              *)

ExampleText == <<Join(FullHeader, Tab), Join(ExampleRow, Tab)>>

ExampleSetRow ==
    [ id |-> C_1,
      set_scatter |-> Some(5 * Scale),
      set_sigma |-> Some((8 * Scale) \div 10),
      drop_rms |-> Some((12 * Scale) \div 10),
      drop_accept |-> Some(18 * Scale),
      drop_reject |-> Some(2 * Scale),
      drop_acc_ratio |-> Some(90 * Scale) ]

\* C12: parse_sets_text of the text made of the tab-delimited header line
\* Set, Sigma, Error, Uncert, Accept, Reject and the row 1, 5.0, 0.8, 1.2,
\* 18, 2 returns exactly one row: id '1', set_scatter 5.0, set_sigma 0.8,
\* drop_rms 1.2, drop_accept 18.0, drop_reject 2.0, drop_acc_ratio 90.0.
C12_SetTableExample ==
    (stage = "returned" /\ set_text = ExampleText) => rows = <<ExampleSetRow>>

\* the same two lines after three other lines do give that row
ExampleAfterThreeLines ==
    (stage = "returned" /\ set_text = <<C_x, C_x, C_x>> \o ExampleText)
        => rows = <<ExampleSetRow>>

\* the header the claim describes, 0-based, for non-blank stripped lines ls
DescribedHeader(ls) ==
    LET qualifies(ln) ==
            Contains(ln, SetName) /\ \E k \in 1..Len(ln) : ln[k] \in {Tab, Comma}
        found == {i \in 0..9 : i < Len(ls) /\ qualifies(ls[i + 1])}
    IN  IF found # {} THEN Min(found)
        ELSE IF Len(ls) > 4 THEN 3 ELSE 0

\* the lines after line h (0-based) that have at least 2 delimited fields
RowLines(ls, h) ==
    {i \in (h + 2)..Len(ls) : Len(Split(ls[i], Separator(ls[h + 1]))) >= 2}

\* C13: the header chosen is the first of the first 10 non-blank lines that
\* contains 'Set' and a tab or a comma; when there is none it is the line at
\* index 3 if there are more than 4 non-blank lines and the line at index 0
\* otherwise; the rows are built from the lines after it.
C13_HeaderChoice ==
    (stage = "returned" /\ StrippedNonBlank(set_text) # <<>>) =>
        LET ls == StrippedNonBlank(set_text)
        IN  /\ hdr_idx = Some(DescribedHeader(ls))
            /\ Len(rows) = Cardinality(RowLines(ls, DescribedHeader(ls)))

\* the same for the texts of at least 5 non-blank lines
HeaderChoiceFromFiveLines ==
    (stage = "returned" /\ Len(StrippedNonBlank(set_text)) >= 5) =>
        LET ls == StrippedNonBlank(set_text)
        IN  /\ hdr_idx = Some(DescribedHeader(ls))
            /\ Len(rows) = Cardinality(RowLines(ls, DescribedHeader(ls)))

\* the non-blank lines of the text as they stand in it
RECURSIVE NonBlankLines(_)
NonBlankLines(t) ==
    IF t = <<>> THEN <<>>
    ELSE (IF Strip(Head(t)) = <<>> THEN <<>> ELSE <<Head(t)>>) \o NonBlankLines(Tail(t))

\* the j-th smallest member of a set of numbers
Nth(S, j) == CHOOSE i \in S : Cardinality({k \in S : k <= i}) = j

\* the row ids are those the claim describes: for the j-th data line with at
\* least 2 delimited fields, the content of its Set column when that is not
\* blank, and the position j otherwise
DescribedRowIds ==
    LET raws == NonBlankLines(set_text)
        h == TheValue(hdr_idx) + 1
        s == Separator(raws[h])
        setcol == col(Cells(raws[h], s), SetName)
        data == {i \in (h + 1)..Len(raws) : Len(Split(raws[i], s)) >= 2}
        content(i) == IF setcol >= 0 /\ setcol < Len(Split(raws[i], s))
                      THEN Strip(Split(raws[i], s)[setcol + 1]) ELSE <<>>
    IN  /\ Len(rows) = Cardinality(data)
        /\ \A j \in 1..Len(rows) :
              rows[j].id = IF content(Nth(data, j)) # <<>>
                           THEN content(Nth(data, j)) ELSE Str(j)

\* C14: for every data line with at least 2 delimited fields the row id is
\* the content of the line's Set column when that is not blank, and the
\* 1-based position of the row in the output when it is blank or the header
\* has no Set column; for tab- and comma-delimited files and any position of
\* the Set column, the first included.
C14_RowId ==
    (stage = "returned" /\ hdr_idx # None) => DescribedRowIds

\* the same where no line after the header begins with a tab
RowIdUnlessLineBeginsWithTab ==
    (/\ stage = "returned" /\ hdr_idx # None
     /\ \A i \in (TheValue(hdr_idx) + 2)..Len(NonBlankLines(set_text)) :
           NonBlankLines(set_text)[i][1] # Tab)
        => DescribedRowIds

\* n is a number of tenths nearest to 100 * a / t
NearestTenth(n, a, t) ==
    LET diff == n * t - 1000 * a
    IN  2 * (IF diff < 0 THEN 0 - diff ELSE diff) <= t

\* C15: in every row drop_acc_ratio is not None exactly when drop_accept and
\* drop_reject are both not None and their sum is greater than 0, and then it
\* is accept * 100 / (accept + reject) rounded to one decimal.
C15_AcceptRatio ==
    \A j \in 1..Len(rows) :
        LET r == rows[j]
            counted == r.drop_accept # None /\ r.drop_reject # None
            sum == TheValue(r.drop_accept) + TheValue(r.drop_reject)
        IN  /\ (r.drop_acc_ratio # None) <=> (counted /\ sum > 0)
            /\ r.drop_acc_ratio # None =>
                  /\ TheValue(r.drop_acc_ratio) % (Scale \div 10) = 0
                  /\ NearestTenth(TheValue(r.drop_acc_ratio) \div (Scale \div 10),
                                  TheValue(r.drop_accept), sum)

\* a row with a ratio that needed rounding (1 of 3: 33.3), one with both
\* counts and sum 0, and one with a count missing
C15_Witness ==
    /\ stage = "returned"
    /\ \E j \in 1..Len(rows) :
          /\ rows[j].drop_accept = Some(1 * Scale)
          /\ rows[j].drop_reject = Some(2 * Scale)
          /\ rows[j].drop_acc_ratio = Some((333 * Scale) \div 10)
    /\ \E j \in 1..Len(rows) :
          /\ rows[j].drop_accept = Some(0) /\ rows[j].drop_reject = Some(0)
          /\ rows[j].drop_acc_ratio = None

\* the names a row field is bound by, in the order they are tried
BoundNames ==
    [ set_scatter |-> <<SigmaName, SetScatterName>>,
      set_sigma |-> <<ErrorName>>,
      drop_rms |-> <<UncertName>>,
      drop_accept |-> <<AcceptName>>,
      drop_reject |-> <<RejectName>> ]

\* the field of a data line under the first of the names that is, exactly, a
\* name of the header; empty when none is or the line has no such field
FieldUnder(names, header, cells) ==
    LET present == {n \in 1..Len(names) : \E p \in 1..Len(header) : header[p] = names[n]}
        place == Min({p \in 1..Len(header) : header[p] = names[Min(present)]})
    IN  IF present = {} THEN <<>>
        ELSE IF Len(cells) < place THEN <<>>
        ELSE cells[place]

\* C16: columns are bound by exact, case-sensitive header name (Set; Sigma,
\* else Set Scatter; Error; Uncert; Accept; Reject).  When the name is not in
\* the header or the data line has no field at the column's place, the field
\* reads as empty and the row's value is None (the id being the position);
\* otherwise the value is the coercion of that field.  Every line of at
\* least 2 fields after the header gives a row.
C16_ColumnBinding ==
    (stage = "returned" /\ hdr_idx # None) =>
        LET h == TheValue(hdr_idx) + 1
            data == {i \in (h + 1)..Len(set_lines) : Len(Split(set_lines[i], sep)) >= 2}
        IN  /\ Len(rows) = Cardinality(data)
            /\ \A j \in 1..Len(rows) :
                  LET cells == Cells(set_lines[Nth(data, j)], sep)
                      setfield == FieldUnder(<<SetName>>, hdr, cells)
                  IN  /\ rows[j].id = (IF setfield = <<>> THEN Str(j) ELSE setfield)
                      /\ \A f \in DOMAIN BoundNames :
                            LET field == FieldUnder(BoundNames[f], hdr, cells)
                            IN  /\ field = <<>> => rows[j][f] = None
                                /\ rows[j][f] = nfloat(Some(field))
                      /\ (\/ FieldUnder(BoundNames.drop_accept, hdr, cells) = <<>>
                          \/ FieldUnder(BoundNames.drop_reject, hdr, cells) = <<>>)
                            => rows[j].drop_acc_ratio = None

\* a header that names 'set' and not 'Set', and a line of two fields: the id
\* is the position, Sigma is bound, the columns the line lacks read as None
C16_Witness ==
    /\ stage = "returned" /\ hdr_idx # None
    /\ hdr = LowerCaseHeader
    /\ set_lines[Len(set_lines)] = Join(<<C_3, C_50>>, sep)
    /\ rows[Len(rows)].id = Str(Len(rows))
    /\ rows[Len(rows)].set_scatter = Some(5 * Scale)
    /\ rows[Len(rows)].drop_accept = None
    /\ rows[Len(rows)].drop_acc_ratio = None

-----------------------------------------------------------------------------
(* Claims about the aggregation.  The generated gravity and tu values are  *)
(* whole numbers, so the claims are stated with integer sums.              *)

Whole(o) == TheValue(o)[1]

\* the positions of the selected measurements that have a gravity
WithGravity == {i \in 1..Len(selected) : selected[i].gravity # None}

GravityAt == [i \in WithGravity |-> Whole(selected[i].gravity)]
GravitySquaredAt == [i \in WithGravity |-> Whole(selected[i].gravity) * Whole(selected[i].gravity)]

GravitiesAre(gs) ==
    /\ Len(selected) = Len(gs)
    /\ \A i \in 1..Len(gs) : selected[i].gravity = Some(Float(gs[i]))

\* C17: _calc_stats ignores the None entries; count is the number of values,
\* min, max and avg their least, greatest and arithmetic mean; with no value
\* count is 0 and min, max, avg, stdev are None; with one value stdev is 0;
\* with two or more stdev is the sample standard deviation (denominator
\* N - 1); for 10, 12, 14: count 3, min 10, max 14, avg 12, stdev 2.
C17_CalcStats ==
    call = "_calc_stats" =>
        LET n == Cardinality(WithGravity)
            sum == SumOver(WithGravity, GravityAt)
            squares == SumOver(WithGravity, GravitySquaredAt)
        IN  /\ stats.count = n
            /\ n = 0 => /\ stats.min = None /\ stats.max = None
                        /\ stats.avg = None /\ stats.stdev = None
            /\ n > 0 =>
                  /\ stats.min = Some(Float(Min({GravityAt[i] : i \in WithGravity})))
                  /\ stats.max = Some(Float(Max({GravityAt[i] : i \in WithGravity})))
                  /\ stats.avg = Some(Frac(sum, n))
            /\ n = 1 => stats.stdev = Some(Sqrt(Float(0)))
            /\ n > 1 => stats.stdev = Some(Sqrt(Frac(n * squares - sum * sum, n * (n - 1))))
            /\ GravitiesAre(<<10, 12, 14>>) =>
                  stats = [count |-> 3, min |-> Some(Float(10)), max |-> Some(Float(14)),
                           avg |-> Some(Float(12)), stdev |-> Some(Sqrt(Float(2 * 2)))]

C17_Witness ==
    /\ call = "_calc_stats"
    /\ GravitiesAre(<<10, 12, 14>>)
    /\ stats.count = 3 /\ stats.stdev = Some(Sqrt(Float(4)))

RECURSIVE ProductOver(_, _)
ProductOver(S, f) ==
    IF S = {} THEN 1
    ELSE LET k == CHOOSE x \in S : TRUE IN f[k] * ProductOver(S \ {k}, f)

\* the positions that have a gravity and a tu above 0
Qualifying ==
    {i \in 1..Len(selected) :
        /\ selected[i].gravity # None
        /\ selected[i].tu # None
        /\ Whole(selected[i].tu) > 0}

\* C18: _inverted_weighted_average uses exactly the measurements that have a
\* gravity and a tu above 0, each with weight 1/tu, and returns
\* sum(gravity * weight) / sum(weight); it returns None when no measurement
\* qualifies; for (100, tu 2) and (104, tu 1) the result is 154 / 1.5.
C18_WeightedAverage ==
    call = "_inverted_weighted_average" =>
        LET tuAt == [i \in Qualifying |-> Whole(selected[i].tu)]
            all == ProductOver(Qualifying, tuAt)
            weightAt == [i \in Qualifying |-> all \div tuAt[i]]
            weightedAt == [i \in Qualifying |-> Whole(selected[i].gravity) * weightAt[i]]
        IN  /\ (weighted = None) <=> (Qualifying = {})
            /\ Qualifying # {} =>
                  weighted = Some(Frac(SumOver(Qualifying, weightedAt),
                                       SumOver(Qualifying, weightAt)))
            /\ selected = ExamplePairs => weighted = Some(Frac(1540, 15))

C18_Witness ==
    /\ call = "_inverted_weighted_average"
    /\ selected = ExamplePairs
    /\ weighted = Some(Frac(1540, 15))

\* a measurement with a tu of 0 or less and another that qualifies
WeightedSkipsNonPositiveTu ==
    /\ call = "_inverted_weighted_average"
    /\ \E i \in 1..Len(selected) :
          /\ selected[i].gravity # None /\ selected[i].tu # None
          /\ Whole(selected[i].tu) <= 0
    /\ Qualifying # {}
    /\ weighted # None

BandKeys == {"tu_open", "tu_close", "tu_high", "tu_low"}

\* C19: in the chart payload labels, gravity, tu_open, tu_close, tu_high and
\* tu_low all have the length of the selection, and at every position the
\* four band values are None when the measurement lacks gravity or tu, and
\* otherwise gravity - tu (open, low) and gravity + tu (close, high) of that
\* same measurement.
C19_BandAlignment ==
    call = "_build_chart_payload" =>
        /\ \A k \in BandKeys \cup {"labels", "gravity"} :
              Len(payload[k]) = Len(selected)
        /\ \A i \in 1..Len(selected) :
              LET m == selected[i]
              IN  /\ payload.labels[i] = m.title
                  /\ payload.gravity[i] = m.gravity
                  /\ (m.gravity = None \/ m.tu = None) =>
                        \A k \in BandKeys : payload[k][i] = None
                  /\ (m.gravity # None /\ m.tu # None) =>
                        LET low == Some(Float(Whole(m.gravity) - Whole(m.tu)))
                            high == Some(Float(Whole(m.gravity) + Whole(m.tu)))
                        IN  /\ payload.tu_open[i] = low /\ payload.tu_low[i] = low
                            /\ payload.tu_close[i] = high /\ payload.tu_high[i] = high

\* a measurement with gravity and no tu before one with both
C19_Witness ==
    /\ call = "_build_chart_payload"
    /\ Len(selected) = 2
    /\ selected[1].gravity = Some(Float(10)) /\ selected[1].tu = None
    /\ selected[2].gravity = Some(Float(12)) /\ selected[2].tu = Some(Float(2))
    /\ payload.tu_open = <<None, Some(Float(10))>>
    /\ payload.tu_high = <<None, Some(Float(14))>>

ReferenceKinds == <<"avg", "weighted", "min", "max">>
ReferenceColor ==
    [avg |-> "#dc2626", weighted |-> "#7c3aed", min |-> "#0ea5e9", max |-> "#0ea5e9"]

\* C20: the reference lines of the payload (its shapes) hold an entry for the
\* mean, the weighted mean, the min and the max only when that value is not
\* None, and the entries present are in the order mean, weighted mean, min,
\* max; the values are those of _calc_stats and _inverted_weighted_average.
C20_ReferenceLines ==
    call = "_build_chart_payload" =>
        LET defined == {k \in 1..4 : payload.lines[ReferenceKinds[k]] # None}
            gravity_stats == _calc_stats([i \in 1..Len(selected) |-> selected[i].gravity])
        IN  /\ payload.lines.avg = gravity_stats.avg
            /\ payload.lines.min = gravity_stats.min
            /\ payload.lines.max = gravity_stats.max
            /\ payload.lines.weighted =
                  _inverted_weighted_average(
                      [i \in 1..Len(selected) |-> <<selected[i].gravity, selected[i].tu>>])
            /\ Len(payload.shapes) = Cardinality(defined)
            /\ \A j \in 1..Len(payload.shapes) :
                  LET kind == ReferenceKinds[Nth(defined, j)]
                  IN  /\ payload.shapes[j].y0 = TheValue(payload.lines[kind])
                      /\ payload.shapes[j].y1 = TheValue(payload.lines[kind])
                      /\ payload.shapes[j].color = ReferenceColor[kind]

\* a mean, a min and a max but no weighted mean: three lines, in that order
C20_Witness ==
    /\ call = "_build_chart_payload"
    /\ payload.lines.avg = Some(Float(11))
    /\ payload.lines.weighted = None
    /\ payload.lines.min = Some(Float(10))
    /\ payload.lines.max = Some(Float(12))
    /\ Len(payload.shapes) = 3
    /\ payload.shapes[1].y0 = Float(11)
    /\ payload.shapes[2].y0 = Float(10)
    /\ payload.shapes[3].y0 = Float(12)

-----------------------------------------------------------------------------
(* The two classifiers                                                     *)

\* C24: classify_threshold of measurement.py and _classify_threshold of
\* measurement_report.py return the same label for every value (None
\* included), every sparse ladder over g, w, p, b, u and both directions.
C24_ClassifiersEquivalent ==
    /\ call = "classify_threshold" =>
          label = _classify_threshold(value, thresholds, higher_is_better)
    /\ call = "_classify_threshold" =>
          label = classify_threshold(value, thresholds, higher_is_better)

\* the two classifiers agree on every ladder without a limit for u
ClassifiersAgreeWithoutU ==
    (call \in {"classify_threshold", "_classify_threshold"}
     /\ "u" \notin DOMAIN thresholds) =>
        label = classify_threshold(value, thresholds, higher_is_better)

-----------------------------------------------------------------------------
(* Monotonicity of classify_threshold                                      *)

\* limits of the generated strictly ordered ladders range over 1..MaxStep
MaxStep == 5

CodeRank == [g |-> 1, w |-> 2, p |-> 3, b |-> 4, u |-> 5]

\* the configured limits are strictly increasing in the order g, w, p, b, u
\* (lower is better), strictly decreasing (higher is better)
StrictlyOrdered(thr, hib) ==
    \A a, b \in DOMAIN thr :
        CodeRank[a] < CodeRank[b] =>
            IF hib THEN thr[a] > thr[b] ELSE thr[a] < thr[b]

\* every sparse ladder with limits in 1..MaxStep that is strictly ordered in
\* one of the two directions
OrderedLadders ==
    UNION {{t \in [S -> 1..MaxStep] :
                StrictlyOrdered(t, TRUE) \/ StrictlyOrdered(t, FALSE)} :
           S \in SUBSET Codes}

StepValues == 0..(MaxStep + 1)

InitMonotone ==
    /\ value \in {Some(v) : v \in StepValues}
    /\ thresholds \in OrderedLadders
    /\ higher_is_better \in BOOLEAN
    /\ call = ""
    /\ label = None
    /\ tooltip = <<>>
    /\ IdleProject
    /\ IdleNumber
    /\ IdleSets
    /\ IdleAnalysis
    /\ IdleRequests

SpecMonotone == InitMonotone /\ [][NextClassify]_vars

\* the severity rank of a returned label, 0 for no label
RankOf(l) == IF l = None THEN 0 ELSE Rank(TheValue(l))

Worse(v2, v1, hib) == IF hib THEN v2 < v1 ELSE v2 > v1

\* C25: on a ladder whose configured limits are strictly increasing in the
\* order g, w, p, b, u (lower is better) or strictly decreasing (higher is
\* better), a value worse than the classified one never gets a label of a
\* lower severity rank (good < warn < poor < bad < unusable).
C25_Monotone ==
    (/\ call = "classify_threshold"
     /\ value # None
     /\ StrictlyOrdered(thresholds, higher_is_better)) =>
        \A v2 \in StepValues :
            Worse(v2, TheValue(value), higher_is_better) =>
                RankOf(classify_threshold(Some(v2), thresholds, higher_is_better))
                    >= RankOf(label)

\* a value between the limits of b and u is bad through the fallback, and a
\* value above the limit of u is unusable
C25_Witness ==
    /\ call = "classify_threshold"
    /\ ~higher_is_better
    /\ thresholds = [g |-> 1, w |-> 2, p |-> 3, b |-> 4, u |-> 5]
    /\ value = Some(5)
    /\ label = Some("bad")
    /\ classify_threshold(Some(6), thresholds, FALSE) = Some("unusable")

-----------------------------------------------------------------------------
(* The keys of the key/value map                                           *)

\* C26: no line, one whose text before the first colon is only whitespace
\* included, stores the empty string as a key: every key of the map is a
\* non-empty string.
C26_NoEmptyKey ==
    call = "parse_project_text" => \A k \in DOMAIN keys : k # <<>>

\* every stored key is free of surrounding whitespace and of colons
KeysAreTrimmed ==
    call = "parse_project_text" =>
        \A k \in DOMAIN keys :
            /\ Strip(k) = k
            /\ \A i \in 1..Len(k) : k[i] # ":"

-----------------------------------------------------------------------------
(* The range of the acceptance ratio                                       *)

\* C27: in every row drop_acc_ratio is None or a percentage from 0 to 100,
\* whatever numbers the Accept and Reject fields hold (a leading minus sign
\* included).
C27_RatioRange ==
    \A j \in 1..Len(rows) :
        rows[j].drop_acc_ratio # None =>
            /\ TheValue(rows[j].drop_acc_ratio) >= 0
            /\ TheValue(rows[j].drop_acc_ratio) <= 100 * Scale

\* the ratio is within 0..100 in every row whose two counts are not negative
RatioRangeOfCounts ==
    \A j \in 1..Len(rows) :
        (/\ rows[j].drop_acc_ratio # None
         /\ TheValue(rows[j].drop_accept) >= 0
         /\ TheValue(rows[j].drop_reject) >= 0) =>
            /\ TheValue(rows[j].drop_acc_ratio) >= 0
            /\ TheValue(rows[j].drop_acc_ratio) <= 100 * Scale

-----------------------------------------------------------------------------
(* _decode_text.  bytes is a sequence of numbers 0..255, a str the         *)
(* sequence of its code points.  A decoder returns None where Python       *)
(* raises UnicodeDecodeError.                                              *)

\* config.PREFERRED_ENCODINGS
PREFERRED_ENCODINGS ==
    <<"utf-8", "utf-16", "utf-16le", "utf-16be", "cp1252", "latin-1">>

\* how many bytes the UTF-8 sequence that starts with b0 has, 0 for a byte
\* that starts none
Utf8Len(b0) ==
    IF b0 <= 127 THEN 1
    ELSE IF b0 >= 194 /\ b0 <= 223 THEN 2
    ELSE IF b0 >= 224 /\ b0 <= 239 THEN 3
    ELSE IF b0 >= 240 /\ b0 <= 244 THEN 4
    ELSE 0

\* the k-th byte after the lead byte b0 is a legal continuation
Utf8TailOk(b0, k, x) ==
    IF k > 1 THEN x >= 128 /\ x <= 191
    ELSE CASE b0 = 224 -> x >= 160 /\ x <= 191
           [] b0 = 237 -> x >= 128 /\ x <= 159
           [] b0 = 240 -> x >= 144 /\ x <= 191
           [] b0 = 244 -> x >= 128 /\ x <= 143
           [] OTHER -> x >= 128 /\ x <= 191

\* how many legal continuation bytes follow the lead byte at i, at most n - 1
Utf8Good(b, i, n) ==
    LET ok == {k \in 0..(n - 1) :
                  \A j \in 1..k : i + j <= Len(b) /\ Utf8TailOk(b[i], j, b[i + j])}
    IN  CHOOSE k \in ok : \A m \in ok : m <= k

\* the code point of the well-formed sequence of n bytes at i
Utf8CodePoint(b, i, n) ==
    CASE n = 1 -> b[i]
      [] n = 2 -> (b[i] - 192) * 64 + (b[i + 1] - 128)
      [] n = 3 -> (b[i] - 224) * 4096 + (b[i + 1] - 128) * 64 + (b[i + 2] - 128)
      [] n = 4 -> (b[i] - 240) * 262144 + (b[i + 1] - 128) * 4096
                  + (b[i + 2] - 128) * 64 + (b[i + 3] - 128)

\* data.decode("utf-8"), from byte i on
RECURSIVE Utf8From(_, _)
Utf8From(b, i) ==
    IF i > Len(b) THEN Some(<<>>)
    ELSE LET n == Utf8Len(b[i])
         IN  IF n = 0 \/ Utf8Good(b, i, n) < n - 1 THEN None
             ELSE LET rest == Utf8From(b, i + n)
                  IN  IF rest = None THEN None
                      ELSE Some(<<Utf8CodePoint(b, i, n)>> \o TheValue(rest))

\* data.decode("utf-8", errors="replace"), from byte i on: U+FFFD for every
\* maximal ill-formed part
RECURSIVE Utf8ReplaceFrom(_, _)
Utf8ReplaceFrom(b, i) ==
    IF i > Len(b) THEN <<>>
    ELSE LET n == Utf8Len(b[i])
         IN  IF n = 0 THEN <<65533>> \o Utf8ReplaceFrom(b, i + 1)
             ELSE IF Utf8Good(b, i, n) < n - 1
                  THEN <<65533>> \o Utf8ReplaceFrom(b, i + 1 + Utf8Good(b, i, n))
                  ELSE <<Utf8CodePoint(b, i, n)>> \o Utf8ReplaceFrom(b, i + n)

\* the 16-bit unit at bytes i, i + 1
Unit(b, i, big) == IF big THEN b[i] * 256 + b[i + 1] ELSE b[i + 1] * 256 + b[i]

HighSurrogate(u) == u >= 55296 /\ u <= 56319
LowSurrogate(u) == u >= 56320 /\ u <= 57343

\* the UTF-16 decoding of the bytes from i on, in one byte order
RECURSIVE Utf16From(_, _, _)
Utf16From(b, i, big) ==
    IF i > Len(b) THEN Some(<<>>)
    ELSE IF i + 1 > Len(b) THEN None
    ELSE LET u == Unit(b, i, big)
         IN  IF LowSurrogate(u) THEN None
             ELSE IF HighSurrogate(u)
             THEN IF i + 3 > Len(b) \/ ~LowSurrogate(Unit(b, i + 2, big)) THEN None
                  ELSE LET rest == Utf16From(b, i + 4, big)
                       IN  IF rest = None THEN None
                           ELSE Some(<<65536 + (u - 55296) * 1024
                                         + (Unit(b, i + 2, big) - 56320)>>
                                     \o TheValue(rest))
             ELSE LET rest == Utf16From(b, i + 2, big)
                  IN  IF rest = None THEN None
                      ELSE Some(<<u>> \o TheValue(rest))

\* data.decode("utf-16"): the byte order mark chooses the order and is
\* dropped; without one the order is little endian
Utf16(b) ==
    IF Len(b) >= 2 /\ b[1] = 255 /\ b[2] = 254 THEN Utf16From(b, 3, FALSE)
    ELSE IF Len(b) >= 2 /\ b[1] = 254 /\ b[2] = 255 THEN Utf16From(b, 3, TRUE)
    ELSE Utf16From(b, 1, FALSE)

\* the bytes 128..159 that cp1252 defines, with their code points
Cp1252High ==
    << <<128, 8364>>, <<130, 8218>>, <<131, 402>>, <<132, 8222>>, <<133, 8230>>,
       <<134, 8224>>, <<135, 8225>>, <<136, 710>>, <<137, 8240>>, <<138, 352>>,
       <<139, 8249>>, <<140, 338>>, <<142, 381>>, <<145, 8216>>, <<146, 8217>>,
       <<147, 8220>>, <<148, 8221>>, <<149, 8226>>, <<150, 8211>>, <<151, 8212>>,
       <<152, 732>>, <<153, 8482>>, <<154, 353>>, <<155, 8250>>, <<156, 339>>,
       <<158, 382>>, <<159, 376>> >>

\* data.decode("cp1252")
Cp1252(b) ==
    LET defined(x) ==
            x < 128 \/ x > 159 \/ \E k \in 1..Len(Cp1252High) : Cp1252High[k][1] = x
        char(x) ==
            IF x < 128 \/ x > 159 THEN x
            ELSE Cp1252High[CHOOSE k \in 1..Len(Cp1252High) : Cp1252High[k][1] = x][2]
    IN  IF \A i \in 1..Len(b) : defined(b[i])
        THEN Some([i \in 1..Len(b) |-> char(b[i])])
        ELSE None

\* data.decode(encoding)
Decode(encoding, b) ==
    CASE encoding = "utf-8" -> Utf8From(b, 1)
      [] encoding = "utf-16" -> Utf16(b)
      [] encoding = "utf-16le" -> Utf16From(b, 1, FALSE)
      [] encoding = "utf-16be" -> Utf16From(b, 1, TRUE)
      [] encoding = "cp1252" -> Cp1252(b)
      [] encoding = "latin-1" -> Some(b)

\* the loop over PREFERRED_ENCODINGS from the i-th on, then the fallback
RECURSIVE DecodeFrom(_, _)
DecodeFrom(b, i) ==
    IF i > Len(PREFERRED_ENCODINGS) THEN Utf8ReplaceFrom(b, 1)
    ELSE LET r == Decode(PREFERRED_ENCODINGS[i], b)
         IN  IF r # None THEN TheValue(r) ELSE DecodeFrom(b, i + 1)

\* the fallback alone: data.decode("utf-8", errors="replace")
decode_utf8_replace(b) == Utf8ReplaceFrom(b, 1)

_decode_text(b) == DecodeFrom(b, 1)

\* length of the generated byte strings
MaxBytes == 4

\* "A", the two bytes of U+00E9 in UTF-8, a byte cp1252 does not define, the
\* high bytes of a high and of a low surrogate, the bytes of the byte order mark
ByteAlphabet == {65, 195, 169, 129, 216, 220, 255, 254}

InitDecode ==
    /\ call = ""
    /\ bytes \in UNION {[1..n -> ByteAlphabet] : n \in 0..MaxBytes}
    /\ decoded = None
    /\ measurements = <<>> /\ measurement_project = <<>>
    /\ preflight_answers = <<>> /\ site_surveys = <<>>
    /\ request = <<>> /\ response = <<>>
    /\ IdleClassify
    /\ IdleProject
    /\ IdleNumber
    /\ IdleSets
    /\ IdleAnalysis

CallDecodeText ==
    /\ call = ""
    /\ call' = "_decode_text"
    /\ decoded' = Some(_decode_text(bytes))
    /\ UNCHANGED <<bytes, measurements, measurement_project, preflight_answers,
                   site_surveys, request, response, cvars, pvars, nvars, svars, avars>>

NextDecode == CallDecodeText

SpecDecode == InitDecode /\ [][NextDecode]_vars

\* the encodings of PREFERRED_ENCODINGS the bytes decode under, by position
Decodable(b) ==
    {i \in 1..Len(PREFERRED_ENCODINGS) : Decode(PREFERRED_ENCODINGS[i], b) # None}

\* C22: _decode_text returns a string for every byte string: the decoding
\* under the first encoding of PREFERRED_ENCODINGS, in list order, that
\* decodes the bytes without error, and the decoding under the first encoding
\* with replacement characters when none does.
C22_DecodeTotal ==
    call = "_decode_text" =>
        /\ decoded # None
        /\ Decodable(bytes) # {} =>
              decoded = Decode(PREFERRED_ENCODINGS[Min(Decodable(bytes))], bytes)
        /\ Decodable(bytes) = {} =>
              /\ PREFERRED_ENCODINGS[1] = "utf-8"
              /\ decoded = Some(Utf8ReplaceFrom(bytes, 1))

\* "A" and 0xD8 decode under utf-16be only of the first four encodings: the
\* text is U+41D8
C22_Witness ==
    /\ call = "_decode_text"
    /\ bytes = <<65, 216>>
    /\ Min(Decodable(bytes)) = 4
    /\ decoded = Some(<<16856>>)

\* every byte string decodes under latin-1: the fallback is never taken
SomeEncodingDecodes ==
    call = "_decode_text" => Len(PREFERRED_ENCODINGS) \in Decodable(bytes)

-----------------------------------------------------------------------------
(* The tables and the handlers of measurement.py and                       *)
(* measurement_analisys.py.  measurement_project maps a measurement id to  *)
(* the rows with that measurement_id, in rowid order; a row's meta_json is *)
(* the record json.loads gives back (strings, floats and null survive      *)
(* json.dumps unchanged).  A title is a sequence of characters.            *)

\* THR["ssov"], in tenths
THR_ssov == [g |-> 50, w |-> 70, p |-> 100, b |-> 150, u |-> 200]

\* a ladder of config.THR in the unit of the numbers read from text
Scaled(thr) == [k \in DOMAIN thr |-> thr[k] * (Scale \div 10)]

\* _get_measurement: the row with this id, or None
_get_measurement(measurement_id) ==
    LET hit == {i \in 1..Len(measurements) : measurements[i].id = measurement_id}
    IN  IF hit = {} THEN None ELSE Some(measurements[CHOOSE i \in hit : TRUE])

\* _get_survey finds a row
SurveyExists(survey_id) == survey_id \in DOMAIN site_surveys

\* the rows of measurement_project WHERE measurement_id = ?
ProjectRows(table, measurement_id) ==
    IF measurement_id \in DOMAIN table THEN table[measurement_id] ELSE <<>>

\* DELETE FROM measurement_project WHERE measurement_id = ?
DeleteProjectRows(table, measurement_id) ==
    [m \in DOMAIN table |-> IF m = measurement_id THEN <<>> ELSE table[m]]

\* INSERT INTO measurement_project
InsertProjectRow(table, row) ==
    [m \in DOMAIN table \cup {row.measurement_id} |->
        IF m = row.measurement_id
        THEN Append(ProjectRows(table, m), row)
        ELSE table[m]]

\* the INSERT of upload_project alone, without its DELETE
AppendProjectRow(table, row) == InsertProjectRow(table, row)

\* upload_project's transaction: the DELETE of the measurement's rows, then
\* the INSERT
ReplaceProjectRow(table, row) ==
    InsertProjectRow(DeleteProjectRows(table, row.measurement_id), row)

\* the characters of the titles, in code point order
TitleChars == <<"A", "B", "a">>

Ord(c) == CHOOSE i \in 1..Len(TitleChars) : TitleChars[i] = c

\* s <= t in SQLite's BINARY collation
RECURSIVE TitleLeq(_, _)
TitleLeq(s, t) ==
    IF s = <<>> THEN TRUE
    ELSE IF t = <<>> THEN FALSE
    ELSE IF Ord(Head(s)) # Ord(Head(t)) THEN Ord(Head(s)) < Ord(Head(t))
    ELSE TitleLeq(Tail(s), Tail(t))

\* WHERE m.survey_id = ? without the ORDER BY: the survey's measurements in
\* every order
SurveyOrders(survey_id) ==
    LET mine == {i \in 1..Len(measurements) : measurements[i].survey_id = survey_id}
    IN  {o \in [1..Cardinality(mine) -> mine] :
            \A j, k \in DOMAIN o : j # k => o[j] # o[k]}

\* WHERE m.survey_id = ? ORDER BY m.title ASC: every order of the survey's
\* measurements that ascends by title (rows of equal title come in any order)
TitleOrders(survey_id) ==
    LET mine == {i \in 1..Len(measurements) : measurements[i].survey_id = survey_id}
    IN  {o \in [1..Cardinality(mine) -> mine] :
            /\ \A j, k \in DOMAIN o : j # k => o[j] # o[k]
            /\ \A j, k \in DOMAIN o :
                  j < k => TitleLeq(measurements[o[j]].title, measurements[o[k]].title)}

\* LEFT JOIN measurement_project: one row per project row of the measurement,
\* and one with a NULL meta_json for a measurement without any
RECURSIVE JoinFrom(_, _)
JoinFrom(o, j) ==
    IF j > Len(o) THEN <<>>
    ELSE LET m == measurements[o[j]]
             ps == ProjectRows(measurement_project, m.id)
         IN  (IF ps = <<>>
              THEN <<[id |-> m.id, title |-> m.title, meta_json |-> None]>>
              ELSE [k \in 1..Len(ps) |->
                       [id |-> m.id, title |-> m.title,
                        meta_json |-> Some(ps[k].meta_json)]])
             \o JoinFrom(o, j + 1)

\* safe_load / _safe_load_meta and the three "or {}"
MetaOf(row) ==
    IF row.meta_json = None THEN [keys |-> <<>>, site |-> <<>>, qm |-> <<>>]
    ELSE TheValue(row.meta_json)

\* dict.get of a dict of strings, and of the qm dict whose values may be None
DictGet(d, k) == IF k \in DOMAIN d THEN Some(d[k]) ELSE None
QmGet(d, k) == IF k \in DOMAIN d THEN d[k] ELSE None

\* the float of a qm value
NumberOf(v) == IF v = None THEN None ELSE Some(TheValue(v).val)

\* nint / _parse_int: int(round(f))
nint(x) ==
    LET f == nfloat(x)
    IN  IF f = None THEN None ELSE Some(RoundHalfEven(TheValue(f), Scale))

\* round(accepted * 100.0 / (accepted + rejected), 1), or None
AcceptedPct(drops_accepted, drops_rejected) ==
    IF drops_accepted # None /\ drops_rejected # None
       /\ TheValue(drops_accepted) + TheValue(drops_rejected) > 0
    THEN Some(Round1(TheValue(drops_accepted),
                     TheValue(drops_accepted) + TheValue(drops_rejected)))
    ELSE None

\* list_measurements: the item of one row (its id, title, metrics, statuses,
\* gravity and drop counts)
Item(r) ==
    LET pm == MetaOf(r)
        pss == QmGet(pm.qm, "project_set_scatter")
        ssov == QmGet(pm.qm, "set_scatter_overall")
        drops_accepted == nint(DictGet(pm.keys, KeyOf("Total Drops Accepted")))
        drops_rejected == nint(DictGet(pm.keys, KeyOf("Total Drops Rejected")))
        acc_pct == AcceptedPct(drops_accepted, drops_rejected)
    IN  [ id |-> r.id,
          title |-> r.title,
          pss |-> pss,
          pss_status |-> classify_threshold(NumberOf(pss), Scaled(THR_pss), FALSE),
          ssov |-> ssov,
          ssov_status |-> classify_threshold(NumberOf(ssov), Scaled(THR_ssov), FALSE),
          gravity |-> DictGet(pm.site, "Gravity (uGal)"),
          drops_accepted |-> drops_accepted,
          drops_rejected |-> drops_rejected,
          accepted_pct |-> acc_pct,
          accepted_status |-> classify_threshold(acc_pct, Scaled(THR_acc), TRUE) ]

\* a float read from text, as the fraction the aggregation computes with
AsFraction(x) == IF x = None THEN None ELSE Some(Frac(TheValue(x), Scale))

\* _collect_measurements: the MeasurementSummary of one row.  str() of the
\* float total_uncertainty has no exponent for the magnitudes of the model,
\* and _parse_float reads the same number back.
Summary(r) ==
    LET meta == MetaOf(r)
        drops_accepted == nint(DictGet(meta.keys, KeyOf("Total Drops Accepted")))
        drops_rejected == nint(DictGet(meta.keys, KeyOf("Total Drops Rejected")))
    IN  [ id |-> r.id,
          title |-> r.title,
          gravity |-> AsFraction(_parse_float(DictGet(meta.site, "Gravity (µGal)"))),
          tu |-> AsFraction(NumberOf(QmGet(meta.qm, "total_uncertainty"))),
          drops_accepted |-> drops_accepted,
          drops_rejected |-> drops_rejected,
          accepted_pct |-> AsFraction(AcceptedPct(drops_accepted, drops_rejected)) ]

\* the extraction loop of parse_project_text over the lines from the i-th on
RECURSIVE ExtractKeys(_, _, _)
ExtractKeys(ls, i, d) ==
    IF i > Len(ls) THEN d ELSE ExtractKeys(ls, i + 1, StoreLine(d, ls[i]))

\* parse_project_text(text), text given by its lines
parse_project_text(ls) ==
    LET d == ExtractKeys(ls, 1, <<>>)
    IN  [keys |-> d, site |-> Site(d), qm |-> QualityMetrics(d)]


\* str.lower() of one character of the file names
LowerChar(c) ==
    CASE c = "A" -> "a" [] c = "C" -> "c" [] c = "E" -> "e" [] c = "J" -> "j"
      [] c = "O" -> "o" [] c = "P" -> "p" [] c = "R" -> "r" [] c = "T" -> "t"
      [] c = "X" -> "x" [] OTHER -> c

Lower(s) == [i \in 1..Len(s) |-> LowerChar(s[i])]

EndsWith(s, suffix) ==
    Len(s) >= Len(suffix) /\ SubSeq(s, Len(s) - Len(suffix) + 1, Len(s)) = suffix

\* ".project.txt"
ProjectSuffix == <<".", "p", "r", "o", "j", "e", "c", "t", ".", "t", "x", "t">>

\* POST /{measurement_id}/upload/project.  The request carries the lines of
\* _decode_text(await file.read()).
upload_project(survey_id, measurement_id, filename, file) ==
    LET meas == _get_measurement(measurement_id)
    IN  /\ call' = "upload_project"
        /\ request' = [survey_id |-> survey_id, measurement_id |-> measurement_id,
                       filename |-> filename, file |-> file]
        /\ IF meas = None \/ TheValue(meas).survey_id # survey_id
           THEN /\ response' = [status |-> 404, detail |-> "Measurement not found"]
                /\ UNCHANGED measurement_project
           ELSE IF ~EndsWith(Lower(filename), ProjectSuffix)
           THEN /\ response' = [status |-> 400, detail |-> "Expected a *.project.txt"]
                /\ UNCHANGED measurement_project
           ELSE /\ measurement_project' =
                       ReplaceProjectRow(
                           measurement_project,
                           [measurement_id |-> measurement_id, filename |-> filename,
                            raw_text |-> file, meta_json |-> parse_project_text(file)])
                /\ response' = [status |-> 303, detail |-> ""]
        /\ selected' = <<>>
        /\ UNCHANGED <<measurements, preflight_answers, site_surveys, bytes, decoded,
                       stats, weighted, payload, cvars, pvars, nvars, svars>>

\* POST /{measurement_id}/project/delete
delete_project(survey_id, measurement_id) ==
    LET meas == _get_measurement(measurement_id)
    IN  /\ call' = "delete_project"
        /\ request' = [survey_id |-> survey_id, measurement_id |-> measurement_id]
        /\ IF meas = None \/ TheValue(meas).survey_id # survey_id
           THEN /\ response' = [status |-> 404, detail |-> "Measurement not found"]
                /\ UNCHANGED measurement_project
           ELSE IF Len(ProjectRows(measurement_project, measurement_id)) = 0
           THEN /\ response' = [status |-> 404, detail |-> "Project file not found"]
                /\ UNCHANGED measurement_project
           ELSE /\ measurement_project' =
                       DeleteProjectRows(measurement_project, measurement_id)
                /\ response' = [status |-> 303, detail |-> ""]
        /\ selected' = <<>>
        /\ UNCHANGED <<measurements, preflight_answers, site_surveys, bytes, decoded,
                       stats, weighted, payload, cvars, pvars, nvars, svars>>

\* GET "" of measurement.py
list_measurements(survey_id) ==
    /\ call' = "list_measurements"
    /\ request' = [survey_id |-> survey_id]
    /\ IF ~SurveyExists(survey_id)
       THEN response' = [status |-> 404, detail |-> "Site Survey not found"]
       ELSE \E o \in TitleOrders(survey_id) :
               LET joined == JoinFrom(o, 1)
               IN  response' = [status |-> 200,
                                items |-> [i \in 1..Len(joined) |-> Item(joined[i])]]
    /\ selected' = <<>>
    /\ UNCHANGED <<measurements, measurement_project, preflight_answers, site_surveys,
                   bytes, decoded, stats, weighted, payload, cvars, pvars, nvars, svars>>

\* the four statistics of _render_response
StatsOf(sel) ==
    [ gravity |-> _calc_stats([i \in 1..Len(sel) |-> sel[i].gravity]),
      weighted |-> _inverted_weighted_average(
                       [i \in 1..Len(sel) |-> <<sel[i].gravity, sel[i].tu>>]),
      tu |-> _calc_stats([i \in 1..Len(sel) |-> sel[i].tu]),
      drops |-> _calc_stats([i \in 1..Len(sel) |->
                    IF sel[i].drops_accepted = None THEN None
                    ELSE Some(Float(TheValue(sel[i].drops_accepted)))]),
      accepted_pct |-> _calc_stats([i \in 1..Len(sel) |-> sel[i].accepted_pct]) ]

\* the filter that keeps every measurement of the survey
FilterNothing(ms, ids) == ms

\* [m for m in measurements if m.id in selected_map]
RECURSIVE Filter(_, _)
Filter(ms, ids) ==
    IF ms = <<>> THEN <<>>
    ELSE (IF Head(ms).id \in ids THEN <<Head(ms)>> ELSE <<>>) \o Filter(Tail(ms), ids)

\* _render_response (analisys_page, analisys_submit); selected is its local
\* list of the selected summaries, empty once another handler runs
_render_response(survey_id, selected_ids) ==
    /\ call' = "_render_response"
    /\ request' = [survey_id |-> survey_id, selected_ids |-> selected_ids]
    /\ IF ~SurveyExists(survey_id)
       THEN /\ response' = [status |-> 404, detail |-> "Site Survey not found"]
            /\ selected' = <<>>
       ELSE \E o \in TitleOrders(survey_id) :
               LET joined == JoinFrom(o, 1)
                   summaries == [i \in 1..Len(joined) |-> Summary(joined[i])]
                   selected_map == {selected_ids[i] : i \in 1..Len(selected_ids)}
                   sel == Filter(summaries, selected_map)
               IN  /\ selected' = sel
                   /\ response' =
                        [status |-> 200,
                         measurements |-> summaries,
                         selected_ids |-> selected_map,
                         stats |-> StatsOf(sel),
                         chart_payload |-> IF sel # <<>>
                                           THEN Some(_build_chart_payload(sel))
                                           ELSE None]
    /\ UNCHANGED <<measurements, measurement_project, preflight_answers, site_surveys,
                   bytes, decoded, stats, weighted, payload, cvars, pvars, nvars, svars>>


\* the lines of three project files: one with the gravity under its short
\* alias, one with it under its full name, one without any
FileGravity ==
    << <<"Gravity", ":", " ", "1", "2">>,
       <<"Total Uncertainty", ":", " ", "2">>,
       <<"Project Set Scatter", ":", " ", "1">>,
       <<"Total Drops Accepted", ":", " ", "3">>,
       <<"Total Drops Rejected", ":", " ", "1">> >>
FileGravityUnit ==
    << <<"Gravity (µGal)", ":", "1", "4">>,
       <<"Total Uncertainty", ":", "1">> >>
FileNoGravity == << <<"Name", ":", " ", "A">> >>

ProjectFiles == {FileGravity, FileGravityUnit, FileNoGravity}

\* "a.project.txt", "A.PROJECT.TXT", "a.set.txt", "project.txt"
Filenames ==
    { <<"a">> \o ProjectSuffix,
      <<"A", ".", "P", "R", "O", "J", "E", "C", "T", ".", "T", "X", "T">>,
      <<"a", ".", "s", "e", "t", ".", "t", "x", "t">>,
      Tail(ProjectSuffix) }

\* measurements 1 and 2 of survey 1; survey 2 has none
StoredMeasurements ==
    << [id |-> 1, survey_id |-> 1, title |-> <<"B">>],
       [id |-> 2, survey_id |-> 1, title |-> <<"A">>] >>

\* the ids of the requests: those of the rows and one that no row has
IdsOf(table) == 1..(Len(table) + 1)

InitStore ==
    /\ call = ""
    /\ measurements = StoredMeasurements
    /\ measurement_project = [m \in 1..Len(StoredMeasurements) |-> <<>>]
    /\ site_surveys = [s \in {1, 2} |-> "new"]
    /\ preflight_answers = <<>>
    /\ request = <<>> /\ response = <<>>
    /\ bytes = <<>> /\ decoded = None
    /\ IdleClassify
    /\ IdleProject
    /\ IdleNumber
    /\ IdleSets
    /\ IdleAnalysis

UploadProject ==
    \E survey_id \in 1..2, measurement_id \in IdsOf(measurements),
       filename \in Filenames, file \in ProjectFiles :
        upload_project(survey_id, measurement_id, filename, file)

DeleteProject ==
    \E survey_id \in 1..2, measurement_id \in IdsOf(measurements) :
        delete_project(survey_id, measurement_id)

ListMeasurements == \E survey_id \in 1..3 : list_measurements(survey_id)

\* the analysis page with some selections of the two measurements
AnalisysPage ==
    \E survey_id \in 1..3, selected_ids \in {<<>>, <<1>>, <<2, 1>>, <<3, 1>>} :
        _render_response(survey_id, selected_ids)

NextStore == UploadProject \/ DeleteProject \/ ListMeasurements \/ AnalisysPage

SpecStore == InitStore /\ [][NextStore]_vars

-----------------------------------------------------------------------------
(* Claims about the stored project records                                 *)

\* the row a successful upload_project stores for its request
UploadedRow(req) ==
    [measurement_id |-> req.measurement_id, filename |-> req.filename,
     raw_text |-> req.file, meta_json |-> parse_project_text(req.file)]

Failed(resp) == resp.status \in {400, 404}

\* C28: every measurement has at most one stored project record; after a
\* successful upload_project the measurement's only record is the parse of
\* the uploaded file, whatever was stored before, and the other measurements'
\* records are untouched; a successful delete_project leaves the measurement
\* without a record; a request answered with 404 or 400 leaves every record
\* unchanged, and those are the requests on a measurement that is not in the
\* survey, a delete without a stored record and an upload whose file name
\* does not end in .project.txt.
C28_OneProjectRecord ==
    /\ [](\A m \in DOMAIN measurement_project : Len(measurement_project[m]) <= 1)
    /\ [][call' \in {"upload_project", "delete_project"} =>
            LET mid == request'.measurement_id
                meas == _get_measurement(mid)
                in_survey == meas # None /\ TheValue(meas).survey_id = request'.survey_id
                stored == ProjectRows(measurement_project, mid) # <<>>
                named == EndsWith(Lower(request'.filename), ProjectSuffix)
            IN  /\ Failed(response') => measurement_project' = measurement_project
                /\ call' = "upload_project" =>
                      /\ response'.status = 404 <=> ~in_survey
                      /\ response'.status = 400 <=> (in_survey /\ ~named)
                      /\ response'.status = 303 <=> (in_survey /\ named)
                      /\ response'.status = 303 =>
                            measurement_project' =
                                [measurement_project EXCEPT ![mid] = <<UploadedRow(request')>>]
                /\ call' = "delete_project" =>
                      /\ response'.status = 404 <=> ~(in_survey /\ stored)
                      /\ response'.status = 303 <=> (in_survey /\ stored)
                      /\ response'.status = 303 =>
                            measurement_project' =
                                [measurement_project EXCEPT ![mid] = <<>>]]_vars

\* the upload of "A.PROJECT.TXT" for measurement 1, while measurement 2 keeps
\* the record of an earlier upload
C28_Witness ==
    /\ call = "upload_project"
    /\ response.status = 303
    /\ request.measurement_id = 1
    /\ request.filename[1] = "A"
    /\ request.file = FileNoGravity
    /\ Len(measurement_project[1]) = 1
    /\ measurement_project[1][1].meta_json.site["Station / Site Name"] = <<"A">>
    /\ Len(measurement_project[2]) = 1
    /\ measurement_project[2][1].raw_text = FileGravity


\* the gravity of the site descriptor of the measurement's stored record, ""
\* when there is no record
StoredGravity(measurement_id) ==
    LET ps == ProjectRows(measurement_project, measurement_id)
    IN  IF ps = <<>> THEN <<>> ELSE ps[1].meta_json.site["Gravity (µGal)"]

\* C29: for every measurement whose stored record has a non-empty gravity in
\* its site descriptor, the item of list_measurements carries that gravity
\* and the summary of _collect_measurements carries its numeric coercion;
\* neither is None.
C29_GravityInViews ==
    /\ (call = "list_measurements" /\ response.status = 200) =>
          \A i \in 1..Len(response.items) :
              LET g == StoredGravity(response.items[i].id)
              IN  g # <<>> => response.items[i].gravity = Some(g)
    /\ (call = "_render_response" /\ response.status = 200) =>
          \A i \in 1..Len(response.measurements) :
              LET g == StoredGravity(response.measurements[i].id)
              IN  g # <<>> =>
                    /\ response.measurements[i].gravity # None
                    /\ response.measurements[i].gravity = AsFraction(nfloat(Some(g)))

\* the summaries of _collect_measurements carry the coerced gravity
GravityInSummaries ==
    (call = "_render_response" /\ response.status = 200) =>
        \A i \in 1..Len(response.measurements) :
            LET g == StoredGravity(response.measurements[i].id)
            IN  g # <<>> =>
                  /\ response.measurements[i].gravity # None
                  /\ response.measurements[i].gravity = AsFraction(nfloat(Some(g)))

\* the items of list_measurements never carry a gravity
NoGravityInItems ==
    (call = "list_measurements" /\ response.status = 200) =>
        \A i \in 1..Len(response.items) : response.items[i].gravity = None

-----------------------------------------------------------------------------
(* The analysis page over stored records                                   *)

\* length of the generated lists of selected ids
MaxIds == 3

\* the titles of measurements 1, 2, 3 of survey 1: all different, two equal,
\* one a prefix of another
TitleChoices ==
    { << <<"B">>, <<"A">>, <<"a">> >>,
      << <<"A">>, <<"B">>, <<"A">> >>,
      << <<"A", "A">>, <<"B">>, <<"A">> >> }

\* the rows a measurement has after its uploads: none, or the row of its
\* last upload
StoredRows(measurement_id) ==
    {<<>>} \cup
    { <<UploadedRow([measurement_id |-> measurement_id,
                     filename |-> <<"a">> \o ProjectSuffix, file |-> file])>> :
        file \in {FileGravity, FileGravityUnit} }

\* measurements 1, 2, 3 of survey 1 and measurement 4 of survey 2, each with
\* the project record some uploads left
InitRender ==
    /\ call = ""
    /\ \E titles \in TitleChoices :
          measurements =
              [i \in 1..4 |-> [id |-> i, survey_id |-> IF i = 4 THEN 2 ELSE 1,
                               title |-> IF i = 4 THEN <<"A">> ELSE titles[i]]]
    /\ \E r1 \in StoredRows(1), r2 \in StoredRows(2), r3 \in StoredRows(3) :
          measurement_project =
              [m \in 1..4 |-> CASE m = 1 -> r1 [] m = 2 -> r2 [] m = 3 -> r3
                                [] OTHER -> CHOOSE r \in StoredRows(4) :
                                                r # <<>> /\ r[1].raw_text = FileGravity]
    /\ site_surveys = [s \in {1, 2} |-> "measurements"]
    /\ preflight_answers = <<>>
    /\ request = <<>> /\ response = <<>>
    /\ bytes = <<>> /\ decoded = None
    /\ IdleClassify
    /\ IdleProject
    /\ IdleNumber
    /\ IdleSets
    /\ IdleAnalysis

\* POST "" of measurement_analisys.py, once per state of the tables (the
\* handler writes nothing)
AnalisysSubmit ==
    /\ call = ""
    /\ \E survey_id \in 1..3, n \in 0..MaxIds :
          \E measurement_ids \in [1..n -> 1..4] :
              _render_response(survey_id, measurement_ids)

NextRender == AnalisysSubmit

SpecRender == InitRender /\ [][NextRender]_vars


\* the ids of the request's selection that belong to a measurement of the
\* request's survey
SelectedOfSurvey ==
    {measurements[i].id : i \in {k \in 1..Len(measurements) :
        /\ measurements[k].survey_id = request.survey_id
        /\ \E j \in 1..Len(request.selected_ids) :
              request.selected_ids[j] = measurements[k].id}}

Rendered == call = "_render_response" /\ response.status = 200

EmptyStats == [count |-> 0, min |-> None, max |-> None, avg |-> None, stdev |-> None]

\* the reference lines of the rendered chart payload
ReferenceLines ==
    IF response.chart_payload = None THEN <<>>
    ELSE TheValue(response.chart_payload).shapes

\* C21: when no selected id belongs to a measurement of the survey (no id at
\* all included), the page is rendered without an error, the statistics of
\* the four fields are {count 0, min, max, avg, stdev None}, the weighted
\* average is None and the chart payload carries no reference line.
C21_EmptySelection ==
    (/\ call = "_render_response"
     /\ SurveyExists(request.survey_id)
     /\ SelectedOfSurvey = {}) =>
        /\ response.status = 200
        /\ selected = <<>>
        /\ \A f \in {"gravity", "tu", "drops", "accepted_pct"} :
              response.stats[f] = EmptyStats
        /\ response.stats.weighted = None
        /\ ReferenceLines = <<>>

\* survey 1 with the ids of another survey's measurement only, while its own
\* measurements have records
C21_Witness ==
    /\ Rendered
    /\ request.survey_id = 1
    /\ request.selected_ids = <<4, 4>>
    /\ \A i \in 1..Len(response.measurements) :
          response.measurements[i].gravity # None
    /\ response.stats.gravity = EmptyStats
    /\ response.chart_payload = None

\* C23: the selected measurements, which the statistics count and the chart
\* payload lists, are the measurements of the survey whose id is in the
\* selection, each once and in ascending title order, whatever the order and
\* the repetitions of the ids; the other ids are ignored.
C23_SelectionByTitle ==
    Rendered =>
        /\ Len(selected) = Cardinality(SelectedOfSurvey)
        /\ {selected[j].id : j \in 1..Len(selected)} = SelectedOfSurvey
        /\ \A j \in 1..Len(selected) :
              /\ \E i \in 1..Len(response.measurements) :
                    response.measurements[i] = selected[j]
              /\ TheValue(_get_measurement(selected[j].id)).title = selected[j].title
        /\ \A j, k \in 1..Len(selected) :
              j < k => TitleLeq(selected[j].title, selected[k].title)
        /\ \A f \in {"gravity", "tu", "accepted_pct"} :
              response.stats[f].count =
                  Cardinality({j \in 1..Len(selected) : selected[j][f] # None})
        /\ response.stats.drops.count =
              Cardinality({j \in 1..Len(selected) : selected[j].drops_accepted # None})
        /\ selected # <<>> =>
              /\ TheValue(response.chart_payload).labels =
                    [j \in 1..Len(selected) |-> selected[j].title]
              /\ TheValue(response.chart_payload).gravity =
                    [j \in 1..Len(selected) |-> selected[j].gravity]
              /\ \A key \in BandKeys :
                    Len(TheValue(response.chart_payload)[key]) = Len(selected)

\* the ids 3, 1, 3 select measurements 1 ("B") and 3 ("a"), in that order
C23_Witness ==
    /\ Rendered
    /\ request.survey_id = 1
    /\ request.selected_ids = <<3, 1, 3>>
    /\ Len(selected) = 2
    /\ selected[1].id = 1 /\ selected[1].title = <<"B">>
    /\ selected[2].id = 3 /\ selected[2].title = <<"a">>
    /\ TheValue(response.chart_payload).labels = << <<"B">>, <<"a">> >>

-----------------------------------------------------------------------------
(* The preflight wizard (preflight_checklist.py).  The checklist is what   *)
(* load_checklist returns: the stages, each the sequence of its steps with *)
(* the step code and the form-safe key.  The form is the set of the keys   *)
(* whose "__chk" field is "on"; no "__val" field is sent.                  *)

\* a step as load_checklist leaves it
Step(code, safe) == [step |-> code, _safe |-> safe]

\* two stages of two and one steps; three stages, the second without steps;
\* one stage
Checklists ==
    { << <<Step("1.1", "s1_1"), Step("1.2", "s1_2")>>, <<Step("2.1", "s2_1")>> >>,
      << <<Step("1.1", "s1_1")>>, <<>>, <<Step("3.1", "s3_1")>> >>,
      << <<Step("1.1", "s1_1")>> >> }

\* the stage numbers of the requests range over 0..MaxStageNo
MaxStageNo == 4

\* clamp_stage_index(stages, idx), 0-based
clamp_stage_index(stages, n) ==
    IF n < 0 THEN 0
    ELSE IF n >= Len(stages) THEN Len(stages) - 1
    ELSE n

\* _upsert_answer for every step of the stage, checked
RECURSIVE UpsertAll(_, _, _, _)
UpsertAll(answers, survey_id, steps, val) ==
    IF steps = <<>> THEN answers
    ELSE UpsertAll(Put(answers, <<survey_id, Head(steps).step>>,
                       [value |-> val, checked |-> TRUE]),
                   survey_id, Tail(steps), val)

\* _is_stage_complete for the answers of one survey
_is_stage_complete(steps, answers, survey_id) ==
    \A i \in 1..Len(steps) :
        /\ <<survey_id, steps[i].step>> \in DOMAIN answers
        /\ answers[<<survey_id, steps[i].step>>].checked

\* UPDATE site_surveys SET status = 'measurements' WHERE id = ?
SetMeasurements(surveys, survey_id) ==
    [s \in DOMAIN surveys |-> IF s = survey_id THEN "measurements" ELSE surveys[s]]

\* POST /stage/{stage_no}/submit
post_stage_submit(stages, survey_id, stage_no, form) ==
    LET stage_idx == clamp_stage_index(stages, stage_no - 1)
        steps == stages[stage_idx + 1]
        missing == {i \in 1..Len(steps) : steps[i]._safe \notin form}
    IN  /\ call' = "post_stage_submit"
        /\ request' = [stages |-> stages, survey_id |-> survey_id,
                       stage_no |-> stage_no, form |-> form]
        /\ IF missing # {}
           THEN /\ response' = [status |-> 400, page |-> "preflight/wizard_stage.html"]
                /\ UNCHANGED <<preflight_answers, site_surveys>>
           ELSE /\ preflight_answers' =
                       UpsertAll(preflight_answers, survey_id, steps, "")
                /\ IF stage_idx + 1 >= Len(stages)
                   THEN /\ site_surveys' = SetMeasurements(site_surveys, survey_id)
                        /\ response' = [status |-> 200,
                                        page |-> "preflight/wizard_complete.html"]
                   ELSE /\ UNCHANGED site_surveys
                        /\ response' = [status |-> 302, page |-> Str(stage_idx + 2)]
        /\ UNCHANGED <<measurements, measurement_project, bytes, decoded,
                       cvars, pvars, nvars, svars, avars>>

\* POST /stage/{stage_no}/check-all
post_check_all(stages, survey_id, stage_no) ==
    LET stage_idx == clamp_stage_index(stages, stage_no - 1)
        steps == stages[stage_idx + 1]
    IN  /\ call' = "post_check_all"
        /\ request' = [stages |-> stages, survey_id |-> survey_id,
                       stage_no |-> stage_no, form |-> {}]
        /\ preflight_answers' = UpsertAll(preflight_answers, survey_id, steps, "")
        /\ response' = [status |-> 302, page |-> Str(stage_no)]
        /\ UNCHANGED <<site_surveys, measurements, measurement_project, bytes, decoded,
                       cvars, pvars, nvars, svars, avars>>

\* the checklist file does not change between the requests: request.stages
\* is the checklist of every request
InitWizard ==
    /\ call = ""
    /\ \E stages \in Checklists :
          request = [stages |-> stages, survey_id |-> 0, stage_no |-> 0, form |-> {}]
    /\ response = [status |-> 0, page |-> ""]
    /\ preflight_answers = <<>>
    /\ site_surveys = [s \in {1, 2} |-> "preflight"]
    /\ measurements = <<>> /\ measurement_project = <<>>
    /\ bytes = <<>> /\ decoded = None
    /\ IdleClassify
    /\ IdleProject
    /\ IdleNumber
    /\ IdleSets
    /\ IdleAnalysis

\* the keys of the steps of the stage a stage number addresses
SafeKeys(stages, stage_no) ==
    LET steps == stages[clamp_stage_index(stages, stage_no - 1) + 1]
    IN  {steps[i]._safe : i \in 1..Len(steps)}

PostStageSubmit ==
    \E survey_id \in DOMAIN site_surveys, stage_no \in 0..MaxStageNo :
        \E form \in SUBSET SafeKeys(request.stages, stage_no) :
            post_stage_submit(request.stages, survey_id, stage_no, form)

PostCheckAll ==
    \E survey_id \in DOMAIN site_surveys, stage_no \in 0..MaxStageNo :
        post_check_all(request.stages, survey_id, stage_no)

NextWizard == PostStageSubmit \/ PostCheckAll

SpecWizard == InitWizard /\ [][NextWizard]_vars

\* every step of every stage has a checked answer for the survey
ChecklistComplete(stages, answers, survey_id) ==
    \A n \in 1..Len(stages) : _is_stage_complete(stages[n], answers, survey_id)

\* the submit that ran the UPDATE of the status
StatusSet == call' = "post_stage_submit" /\ response'.status = 200

\* C30: whenever post_stage_submit sets a survey's status to 'measurements',
\* every step of every stage has a persisted checked answer for that survey;
\* and a submit with an unchecked step of the addressed stage is answered 400
\* and changes neither the answers nor the status.
C30_StatusNeedsChecklist ==
    /\ [][StatusSet =>
            /\ site_surveys'[request'.survey_id] = "measurements"
            /\ ChecklistComplete(request'.stages, preflight_answers',
                                 request'.survey_id)]_vars
    /\ [][call' = "post_stage_submit" =>
            /\ response'.status = 400 <=>
                  SafeKeys(request'.stages, request'.stage_no) \ request'.form # {}
            /\ response'.status = 400 =>
                  UNCHANGED <<preflight_answers, site_surveys>>]_vars

\* a rejected submit changes nothing, and the submit that sets the status
\* has stored a checked answer for every step of the last stage
LastStageChecked ==
    /\ [][StatusSet =>
            /\ site_surveys'[request'.survey_id] = "measurements"
            /\ _is_stage_complete(request'.stages[Len(request'.stages)],
                                  preflight_answers', request'.survey_id)]_vars
    /\ [][call' = "post_stage_submit" =>
            /\ response'.status = 400 <=>
                  SafeKeys(request'.stages, request'.stage_no) \ request'.form # {}
            /\ response'.status = 400 =>
                  UNCHANGED <<preflight_answers, site_surveys>>]_vars

=============================================================================
